---- MODULE Spec2Model ----
(***************************************************************************)
(* A state-machine model of duetto: the seen-id caches, the processors and *)
(* their pipeline, the alert filter, the polling collectors, the engine    *)
(* drivers and the WebSocket managers.                                     *)
(***************************************************************************)
EXTENDS Integers, Sequences, FiniteSets, TLC

(***************************************************************************)
(* Bounds of the model.                                                    *)
(***************************************************************************)
\* capacity given to the LRUCache objects (the code's defaults are 1000 and 10000)
Capacity == 2
\* number of distinct keys offered to the caches beyond their capacity
ExtraKeys == 2
\* number of add calls made on the LRUCache objects in one run
MaxAdds == 4

\* capacity given to the DedupProcessor (the code's default is 1000)
DedupCapacity == 2
\* number of process calls made on the DedupProcessor in one run
MaxProcess == 5

\* capacity of a collector's seen-id cache (the code's is 10000)
SeenCapacity == 2
\* entries on one fetched feed page or approvals table
MaxPage == 2

\* WebSocket clients that connect
MaxClients == 3
MaxNotifiers == 3
MaxAnalyze == 2
MaxLifeCalls == 3
MaxFails == 2
MaxCards == 1
MaxStored == 102
MaxCallers == 3
MaxOver == 1
MaxFrames == 3
MaxConnects == 3
MaxHandled == 2
MaxRowsOver == 2

Keys == 1..(Capacity + ExtraKeys)

\* alert ids
Ids == 1..(DedupCapacity + 1)

\* AlertPriority
\* the ids the sources show
SourceIds == 1..(SeenCapacity + 1)

\* the WebSocket objects the endpoints are called with
Clients == 1..MaxClients

\* the WebSocket objects that connect while both drivers broadcast
ConcurrentClients == 1..(MaxClients - 1)

\* the tasks that call broadcast: AlertEngine._run_sec_loop and _run_fda_loop
Drivers == {"sec", "fda"}

\* the keys of SEC_FEEDS, in the dict's order
SEC_FEEDS == <<"8-K", "S-3", "4">>
\* years_to_check of FDACollector._fetch_approvals
years_to_check == <<"current_year", "current_year - 1">>
\* rows[:20]
FDA_ROW_LIMIT == 20

LOW == "low"
MEDIUM == "medium"
HIGH == "high"
AlertPriority == {LOW, MEDIUM, HIGH}

\* the value a processor returns to drop an alert
None == [none |-> TRUE]

\* the keys of CATALYST_PATTERNS, in the dict's order
CATALYST_PATTERNS ==
    <<"merger_acquisition", "fda_catalyst", "offering_dilution",
      "contract_partnership", "insider_activity", "bankruptcy_restructuring">>

\* values of the DUETTO_NOTIFY_MIN_PRIORITY setting
MinSettings == {"low", "medium", "high", "HIGH", "Medium"}

\* catalyst_types an AlertFilter is built with: a list of categories; None
\* is held as the empty list (should_pass tests only its truth value)
CatalystTypeChoices ==
    {<<>>, <<"fda_catalyst">>, <<"merger_acquisition", "offering_dilution">>}

VARIABLES
    cache,      \* duetto/utils/cache.py LRUCache.cache: the dict's keys in insertion order
    cacheLog,   \* the add calls made on it: key, returned value, keys before and after
    lruSet,     \* duetto/utils.py LRUCache._set
    lruQueue,   \* duetto/utils.py LRUCache._queue
    lruLog,     \* the add calls made on it
    seen,       \* DedupProcessor.seen
    dedupLog,   \* the process calls made on the DedupProcessor: id, passed
    notify_min_priority,  \* settings.notify_min_priority
    alertFilter,          \* the AlertFilter object: min_priority, filter_noise, catalyst_types
    call,       \* the last direct call of a filter function: fn, alert, result
    processors, \* ProcessorPipeline.processors
    run,        \* the last ProcessorPipeline.run: alert, processor calls, result
    handoff,    \* the last alert an engine handed to broadcast, and as collected
    colKind,    \* the class of the collector object
    colSession, \* its _session: "none" or "open"
    colRunning, \* its _running
    colSeen,    \* its _seen_ids.cache: the keys in insertion order
    gen,        \* the frame of its collect() generator: pc, pos (feed or year), left (entries
                \* not yet reached), count, alert (the alert yielded), skipped (the kinds
                \* of failure met in this call: "fetch", "entry")
    tracked,    \* the source id whose appearances and emissions are recorded (0: none)
    hist,       \* that record: appeared, since (other ids seen since its last appearance),
                \* wide (some gap between two appearances held SeenCapacity other ids or more),
                \* suppressed (a repeat was not emitted), count (emissions, at most 2 counted)
    engineKind, \* the engine that drives the collector ("none": a bare consumer)
    engineRunning, \* AlertEngine._running, DuettoEngine.running
    drv,        \* where the engine's driver of the collector stands
    outcome,    \* how the last processing step of the driver ended
    hubKind,    \* the module of the WebSocketManager object: "services" or "server"
    connections,  \* its _connections (services/websocket_manager.py) or active_connections
                  \* (server.py)
    callers,    \* the drivers that call its broadcast
    lock,       \* its asyncio.Lock: "free", or the driver whose broadcast holds it
    waiters,    \* the tasks that wait for the lock, first come first
    endpoint,   \* where each websocket_endpoint call stands: "new", "accepted" (waits for the
                \* lock in connect), "receiving", "closed" (the client closed; waits for the
                \* lock in disconnect), "gone" (closed and detached), "errored" (detached
                \* after another exception)
    bc,         \* per driver, the frame of its broadcast call: pc, snap (the list the loop
                \* started on), i, conn, dead, and of the current or last call: sent (send
                \* attempts per client), failed, pruned (clients detached without a send
                \* attempt), before (clients whose send had failed when this broadcast was
                \* called), earlier (the drivers whose broadcast was called before this
                \* one and has not ended), done
    hubError,   \* some list.remove raised ValueError
    fan,        \* the delivery of one alert to the notifiers: the engine, its settings and
                \* notifiers, the alert, and per notifier its position and what it was given
    ai,         \* an AI provider: class, api_key, session, and of its analyze calls the
                \* response served, the HTTP requests issued and the result
    life,       \* a collector under start(), stop() and collect() calls
    sup,        \* an engine with its drivers, collectors, notifiers and sessions under
                \* run(), start() and stop()
    recent,     \* AlertEngine._recent_alerts and the last get_recent_alerts call
    tm,         \* utils/ticker_mapper.py: the global _ticker_mapper and the tasks that
                \* call get_ticker_mapper
    built,      \* the alert a collector last built: the lengths of its fields
    dropped,    \* the alert object AlertEngine._process_alert last dropped, as it was
                \* when should_pass refused it
    tv,         \* a TradingViewCollector: its _queue, the quote frames handled, and
                \* what its collect() has yielded
    sock,       \* the _run_loop task of a TradingViewCollector: where it stands and
                \* the messages it has sent on the socket
    tries,      \* the _parse_entry calls a SECEdgarCollector made for the tracked id
    scan        \* one FDACollector cycle, page by page: what each page held and what
                \* was yielded from it

cacheVars == <<cache, cacheLog, lruSet, lruQueue, lruLog>>
dedupVars == <<seen, dedupLog>>
configVars == <<notify_min_priority, alertFilter, processors>>
filterVars == <<call>>
pipeVars == <<run, handoff>>
collectorVars == <<colKind, colSession, colRunning, colSeen, gen, tracked, hist>>
driverVars == <<engineKind, engineRunning, drv, outcome>>
hubVars == <<hubKind, callers, connections, lock, waiters, endpoint, bc, hubError>>
serviceVars == <<fan, ai, life>>
lateVars == <<sup, recent, tm, built>>
finalVars == <<dropped, tv, sock, tries, scan>>

vars == <<cacheVars, finalVars, dedupVars, configVars, lateVars, serviceVars, filterVars, pipeVars,
          collectorVars, driverVars, hubVars>>

(***************************************************************************)
(* Sequence helpers.                                                       *)
(***************************************************************************)
Range(s) == {s[i] : i \in 1..Len(s)}

\* list.remove(x) / dict.pop(x): the sequence without its first occurrence of x
RECURSIVE Remove(_, _)
Remove(s, x) ==
    IF s = <<>> THEN <<>>
    ELSE IF Head(s) = x THEN Tail(s)
    ELSE <<Head(s)>> \o Remove(Tail(s), x)

(***************************************************************************)
(* duetto/utils/cache.py: LRUCache over a dict.                            *)
(***************************************************************************)
\* a variant that leaves a key already present where it is
LRUCache_add_no_move(c, capacity, key) ==
    IF key \in Range(c)
    THEN [cache |-> c, ret |-> FALSE]
    ELSE LET ins == Append(c, key)
         IN  [cache |-> IF Len(ins) > capacity THEN Tail(ins) ELSE ins,
              ret   |-> TRUE]

\* a variant that evicts the newest entry instead of the oldest
LRUCache_add_evict_newest(c, capacity, key) ==
    IF key \in Range(c)
    THEN [cache |-> Append(Remove(c, key), key), ret |-> FALSE]
    ELSE LET ins == Append(c, key)
         IN  [cache |-> IF Len(ins) > capacity THEN SubSeq(ins, 1, Len(ins) - 1) ELSE ins,
              ret   |-> TRUE]

\* a variant that evicts only when the size exceeds capacity + 1
LRUCache_add_late_evict(c, capacity, key) ==
    IF key \in Range(c)
    THEN [cache |-> Append(Remove(c, key), key), ret |-> FALSE]
    ELSE LET ins == Append(c, key)
         IN  [cache |-> IF Len(ins) > capacity + 1 THEN Tail(ins) ELSE ins,
              ret   |-> TRUE]

\* LRUCache.add(key): the new dict and the returned value
LRUCache_add(c, capacity, key) ==
    IF key \in Range(c)
    THEN \* move to end (most recently used)
         [cache |-> Append(Remove(c, key), key), ret |-> FALSE]
    ELSE LET ins == Append(c, key)
         IN  \* evict oldest (first item) if over capacity
             [cache |-> IF Len(ins) > capacity THEN Tail(ins) ELSE ins,
              ret   |-> TRUE]

\* LRUCache.__contains__
LRUCache_contains(c, key) == key \in Range(c)

\* LRUCache.__len__
LRUCache_len(c) == Len(c)

(***************************************************************************)
(* duetto/utils.py: LRUCache over a set and a deque.                       *)
(***************************************************************************)
\* LRUCache.add(item): the new set and deque and the returned value
Utils_LRUCache_add(s, q, capacity, item) ==
    IF item \in s
    THEN [set |-> s, queue |-> q, ret |-> FALSE]
    ELSE LET s1 == s \cup {item}
             q1 == Append(q, item)
         IN  IF Cardinality(s1) > capacity
             THEN [set |-> s1 \ {Head(q1)}, queue |-> Tail(q1), ret |-> TRUE]
             ELSE [set |-> s1, queue |-> q1, ret |-> TRUE]

\* LRUCache.__contains__
Utils_LRUCache_contains(s, item) == item \in s

\* LRUCache.__len__
Utils_LRUCache_len(s) == Cardinality(s)

(***************************************************************************)
(* duetto/processors/dedup.py: DedupProcessor.                             *)
(***************************************************************************)
\* DedupProcessor.process(alert): the possible outcomes, each the returned
\* value and the new seen set.  set.pop() removes an arbitrary element, the
\* id just added included.
DedupProcessor_process(s, max_size, alert) ==
    IF alert.id \in s
    THEN {[out |-> None, seen |-> s]}
    ELSE LET s1 == s \cup {alert.id}
         IN  IF Cardinality(s1) > max_size
             THEN {[out |-> alert, seen |-> s1 \ {x}] : x \in s1}
             ELSE {[out |-> alert, seen |-> s1]}

(***************************************************************************)
(* duetto/processors/filter.py: FilterProcessor.                           *)
(***************************************************************************)
\* list.index(x), counted from 0
Index(list, x) == (CHOOSE i \in 1..Len(list) : list[i] = x) - 1

\* str.lower() on the values of the setting
Lower(str) ==
    CASE str = "HIGH" -> "high"
      [] str = "Medium" -> "medium"
      [] OTHER -> str

\* a variant that compares the indexes with > instead of >=
FilterProcessor_check_priority_strict(min_setting, alert) ==
    LET min_p == Lower(min_setting)
        p_order == <<LOW, MEDIUM, HIGH>>
        min_target == IF min_p = "high" THEN HIGH
                      ELSE IF min_p = "medium" THEN MEDIUM
                      ELSE LOW
    IN  IF alert.priority \notin Range(p_order)
        THEN TRUE
        ELSE Index(p_order, alert.priority) > Index(p_order, min_target)

\* FilterProcessor._check_priority(alert)
FilterProcessor_check_priority(min_setting, alert) ==
    LET min_p == Lower(min_setting)
        p_order == <<LOW, MEDIUM, HIGH>>
        min_target == IF min_p = "high" THEN HIGH
                      ELSE IF min_p = "medium" THEN MEDIUM
                      ELSE LOW
    IN  IF alert.priority \notin Range(p_order)
        THEN TRUE     \* except ValueError
        ELSE Index(p_order, alert.priority) >= Index(p_order, min_target)

\* FilterProcessor.process(alert)
FilterProcessor_process(min_setting, alert) ==
    IF ~FilterProcessor_check_priority(min_setting, alert) THEN None ELSE alert

(***************************************************************************)
(* duetto/filters/alert_filter.py: AlertFilter.  The text of an alert      *)
(* (title and summary) is held as what the patterns find in it: `matches`, *)
(* the categories one of whose patterns matches, and `noise`, whether a    *)
(* noise pattern matches.  `classified` and `catalysts` are                *)
(* raw_data["catalysts"].                                                  *)
(***************************************************************************)
\* AlertFilter.classify_catalysts(alert): the matching categories, each once,
\* in the order of CATALYST_PATTERNS
classify_catalysts(alert) ==
    SelectSeq(CATALYST_PATTERNS, LAMBDA category : category \in alert.matches)

\* AlertFilter._is_noise(alert)
is_noise(alert) == alert.noise

\* a variant whose first list lacks bankruptcy_restructuring
enhance_alert_two_high(alert) ==
    LET catalysts == classify_catalysts(alert)
        priority ==
            IF \E cat \in Range(catalysts) :
                   cat \in {"merger_acquisition", "fda_catalyst"}
            THEN HIGH
            ELSE IF \E cat \in Range(catalysts) :
                        cat \in {"contract_partnership", "insider_activity"}
            THEN IF alert.priority = LOW THEN MEDIUM ELSE alert.priority
            ELSE alert.priority
    IN  [alert EXCEPT !.priority = priority,
                      !.classified = TRUE,
                      !.catalysts = catalysts]

\* a variant whose elif branch sets MEDIUM whatever the priority was
enhance_alert_sets_medium(alert) ==
    LET catalysts == classify_catalysts(alert)
        priority ==
            IF \E cat \in Range(catalysts) :
                   cat \in {"merger_acquisition", "fda_catalyst", "bankruptcy_restructuring"}
            THEN HIGH
            ELSE IF \E cat \in Range(catalysts) :
                        cat \in {"contract_partnership", "insider_activity"}
            THEN MEDIUM
            ELSE alert.priority
    IN  [alert EXCEPT !.priority = priority,
                      !.classified = TRUE,
                      !.catalysts = catalysts]

\* AlertFilter.enhance_alert(alert)
enhance_alert(alert) ==
    LET catalysts == classify_catalysts(alert)
        priority ==
            IF \E cat \in Range(catalysts) :
                   cat \in {"merger_acquisition", "fda_catalyst", "bankruptcy_restructuring"}
            THEN HIGH
            ELSE IF \E cat \in Range(catalysts) :
                        cat \in {"contract_partnership", "insider_activity"}
            THEN IF alert.priority = LOW THEN MEDIUM ELSE alert.priority
            ELSE alert.priority
    IN  [alert EXCEPT !.priority = priority,
                      !.classified = TRUE,
                      !.catalysts = catalysts]

\* AlertFilter.should_pass(alert)
should_pass(f, alert) ==
    LET priority_order == <<LOW, MEDIUM, HIGH>>
    IN  IF Index(priority_order, alert.priority) < Index(priority_order, f.min_priority)
        THEN FALSE
        ELSE IF f.filter_noise /\ is_noise(alert)
        THEN FALSE
        ELSE IF f.catalyst_types # <<>>
        THEN \E cat \in Range(classify_catalysts(alert)) :
                 cat \in Range(f.catalyst_types)
        ELSE TRUE

(***************************************************************************)
(* duetto/processors/base.py: ProcessorPipeline.                           *)
(***************************************************************************)
\* p.process(alert) for a processor of the pipeline: the possible outcomes
Processor_process(p, alert, s, min_setting) ==
    IF p = "DedupProcessor"
    THEN DedupProcessor_process(s, DedupCapacity, alert)
    ELSE {[out |-> FilterProcessor_process(min_setting, alert), seen |-> s]}

\* a variant of the loop that does not return on a drop: it goes on with
\* the alert it last held
RECURSIVE run_loop_without_return(_, _, _, _, _, _)
run_loop_without_return(procs, i, current_alert, s, calls, min_setting) ==
    IF i > Len(procs)
    THEN {[out |-> current_alert, seen |-> s, calls |-> calls]}
    ELSE UNION { run_loop_without_return(procs, i + 1,
                     IF r.out = None THEN current_alert ELSE r.out, r.seen,
                     Append(calls, [proc |-> procs[i], arg |-> current_alert, out |-> r.out]),
                     min_setting)
                 : r \in Processor_process(procs[i], current_alert, s, min_setting) }

\* the loop of ProcessorPipeline.run from processor i on: the possible
\* outcomes, each the returned value, the new seen set and the calls made
RECURSIVE run_loop(_, _, _, _, _, _)
run_loop(procs, i, current_alert, s, calls, min_setting) ==
    IF i > Len(procs)
    THEN {[out |-> current_alert, seen |-> s, calls |-> calls]}
    ELSE IF current_alert = None
    THEN {[out |-> None, seen |-> s, calls |-> calls]}
    ELSE UNION { run_loop(procs, i + 1, r.out, r.seen,
                     Append(calls, [proc |-> procs[i], arg |-> current_alert, out |-> r.out]),
                     min_setting)
                 : r \in Processor_process(procs[i], current_alert, s, min_setting) }

\* ProcessorPipeline.run(alert)
ProcessorPipeline_run(procs, alert, s, min_setting) ==
    run_loop(procs, 1, alert, s, <<>>, min_setting)

(***************************************************************************)
(* duetto/collectors: SECEdgarCollector and FDACollector.  An entry of a   *)
(* page is its id and what the keyword lists and the patterns find in its  *)
(* text.                                                                   *)
(***************************************************************************)
Min(a, b) == IF a < b THEN a ELSE b

\* entry texts: the keyword list that matches first, the catalyst categories
\* whose patterns match, whether a noise pattern matches
EntryTexts ==
    { [keyword |-> "none", matches |-> {}, noise |-> FALSE],
      [keyword |-> "high", matches |-> {"merger_acquisition"}, noise |-> FALSE],
      [keyword |-> "medium", matches |-> {"offering_dilution"}, noise |-> TRUE] }

\* SECEdgarCollector._determine_priority
determine_priority(text) ==
    IF text.keyword = "high" THEN HIGH
    ELSE IF text.keyword = "medium" THEN MEDIUM
    ELSE LOW

\* SECEdgarCollector._parse_entry, when it raises nothing
parse_entry(alert_id, text) ==
    [id |-> alert_id, priority |-> determine_priority(text), source |-> "SEC EDGAR",
     matches |-> text.matches, noise |-> text.noise,
     classified |-> FALSE, catalysts |-> <<>>]

\* FDACollector._parse_approval_row, when it raises nothing: the title
\* "FDA Approval: ..." matches the fda_catalyst patterns
parse_approval_row(alert_id) ==
    [id |-> alert_id, priority |-> HIGH, source |-> "FDA",
     matches |-> {"fda_catalyst"}, noise |-> FALSE,
     classified |-> FALSE, catalysts |-> <<>>]

\* no collect() generator
GenOff ==
    [pc |-> "off", pos |-> 0, left |-> 0, count |-> 0, alert |-> None, skipped |-> {}]

\* the generator after the last entry of a page.  SECEdgarCollector.collect
\* sleeps and goes to the next feed; FDACollector._fetch_approvals breaks if
\* the page yielded an alert and goes to the next year otherwise.
AfterPage(kind, g) ==
    IF kind = "SECEdgarCollector"
    THEN IF g.pos < Len(SEC_FEEDS)
         THEN [pc |-> "fetch", pos |-> g.pos + 1, left |-> 0, count |-> 0, alert |-> None,
               skipped |-> g.skipped]
         ELSE [GenOff EXCEPT !.pc = "done"]
    ELSE IF g.count = 0 /\ g.pos < Len(years_to_check)
         THEN [pc |-> "fetch", pos |-> g.pos + 1, left |-> 0, count |-> 0, alert |-> None,
               skipped |-> g.skipped]
         ELSE [GenOff EXCEPT !.pc = "done"]

\* a variant in which a failed fetch ends the generator
fetch_failed_ends(kind, g) == [GenOff EXCEPT !.pc = "done"]

\* the generator after a fetch that failed: the status is not 200 (return,
\* continue) or the request or the parsing of the page raised (except, log)
fetch_failed(kind, g) == AfterPage(kind, [g EXCEPT !.skipped = @ \cup {"fetch"}])

\* the generator when it goes on in its for loop over the entries
Advance(kind, g) ==
    IF g.left > 0
    THEN [g EXCEPT !.pc = "entries", !.alert = None]
    ELSE AfterPage(kind, g)

\* nothing recorded about the tracked id
NoHist ==
    [appeared |-> FALSE, since |-> {}, wide |-> FALSE, suppressed |-> FALSE, count |-> 0]

\* the record after the source showed id and the collector emitted it or not
Shown(h, id, emitted) ==
    IF tracked = 0 THEN h
    ELSE IF id = tracked
    THEN [appeared |-> TRUE,
          since |-> {},
          wide |-> h.wide \/ (h.appeared /\ Cardinality(h.since) >= SeenCapacity),
          suppressed |-> h.suppressed \/ (h.appeared /\ ~emitted),
          count |-> IF emitted THEN Min(h.count + 1, 2) ELSE h.count]
    ELSE IF h.appeared
    THEN [h EXCEPT !.since = @ \cup {id}]
    ELSE h

(***************************************************************************)
(* duetto/services/alert_engine.py: the processing of one alert.           *)
(***************************************************************************)
\* AlertEngine._process_alert(alert): what is handed to broadcast after it,
\* h being what was handed before
process_alert(f, alert, h) ==
    LET enhanced == enhance_alert(alert)
    IN  IF should_pass(f, enhanced)
        THEN [engine |-> "AlertEngine", collected |-> alert, alert |-> enhanced]
        ELSE h

\* AlertEngine._process_alert(alert): the alert object it returns early on,
\* as it is when should_pass refuses it, d being what was dropped before
process_alert_drop(f, alert, d) ==
    LET enhanced == enhance_alert(alert)
    IN  IF should_pass(f, enhanced)
        THEN d
        ELSE [pc |-> "dropped", collected |-> alert, alert |-> enhanced]

(***************************************************************************)
(* duetto/services/websocket_manager.py and duetto/server.py: the two      *)
(* WebSocketManager classes.                                               *)
(***************************************************************************)
\* a variant of the lock test under which nobody waits for the lock
LockIgnored(l) == TRUE

\* "async with self._lock" goes on without waiting
LockFree(l) == l = "free"

\* the lock can be taken at once: it is not held and nobody waits for it
CanAcquire(l, w) == LockFree(l) /\ w = <<>>

\* WebSocket.client_state, from where the endpoint of the client stands
client_state(ep) ==
    IF ep = "new" THEN "CONNECTING"
    ELSE IF ep \in {"closed", "gone"} THEN "DISCONNECTED"
    ELSE "CONNECTED"

\* list.remove(ws): ValueError if ws is not in the list
list_remove(conns, ws) ==
    [connections |-> Remove(conns, ws), raised |-> ws \notin Range(conns)]

\* a variant that leaves the list as it is
disconnect_keeps(conns, ws) ==
    [connections |-> conns, raised |-> FALSE]

\* "if websocket in connections: connections.remove(websocket)"
disconnect(conns, ws) ==
    IF ws \in Range(conns)
    THEN list_remove(conns, ws)
    ELSE [connections |-> conns, raised |-> FALSE]

\* "if conn in connections: connections.remove(conn)" for each conn of dead
RECURSIVE RemoveAll(_, _)
RemoveAll(conns, dead) ==
    IF dead = <<>> THEN [connections |-> conns, raised |-> FALSE]
    ELSE LET r == disconnect(conns, Head(dead))
             rest == RemoveAll(r.connections, Tail(dead))
         IN  [rest EXCEPT !.raised = @ \/ r.raised]

\* no broadcast called yet
NoBroadcast ==
    [pc |-> "idle", snap |-> <<>>, i |-> 0, conn |-> 0, dead |-> <<>>,
     sent |-> [ws \in Clients |-> 0], failed |-> {}, pruned |-> {}, before |-> {},
     earlier |-> {}, done |-> FALSE]

\* the clients whose send has failed so far, in any broadcast
Dropped(frames) ==
    UNION {frames[d].before : d \in Drivers} \cup UNION {frames[d].failed : d \in Drivers}

\* the drivers whose broadcast has been called and has not ended
InFlight(frames) == {d \in Drivers : frames[d].pc \in {"waiting", "sending"}}

\* the frame of a broadcast at its call
NewFrame(frames) ==
    [NoBroadcast EXCEPT !.before = Dropped(frames), !.earlier = InFlight(frames)]

\* the frames after a step: earlier keeps the broadcasts that have not ended
Settle(frames) ==
    [d \in Drivers |-> [frames[d] EXCEPT !.earlier = @ \cap InFlight(frames)]]

\* server.py broadcast from entry i of its copy on, up to the next send: the
\* entries whose client_state is DISCONNECTED are detached and passed over
RECURSIVE server_loop(_, _, _, _)
server_loop(copy, i, conns, ep) ==
    IF i > Len(copy)
    THEN [i |-> i, connections |-> conns, pruned |-> {}, raised |-> FALSE]
    ELSE IF client_state(ep[copy[i]]) = "DISCONNECTED"
    THEN LET d == disconnect(conns, copy[i])
             r == server_loop(copy, i + 1, d.connections, ep)
         IN  [r EXCEPT !.pruned = @ \cup {copy[i]}, !.raised = @ \/ d.raised]
    ELSE [i |-> i, connections |-> conns, pruned |-> {}, raised |-> FALSE]

\* services/ broadcast from the acquisition of the lock up to the first send,
\* or to its end if the list is empty: the new frame and the new lock
services_loop(d, conns, frames) ==
    IF conns = <<>>
    THEN [frame |-> [NewFrame(frames) EXCEPT !.done = TRUE],
          lock |-> "free"]
    ELSE [frame |-> [NewFrame(frames) EXCEPT !.pc = "sending", !.snap = conns, !.i = 1,
                                             !.conn = conns[1], !.sent[conns[1]] = 1],
          lock |-> d]

(***************************************************************************)
(* duetto/services/notifications and duetto/notifiers: the delivery of an  *)
(* alert to the external channels.                                         *)
(***************************************************************************)
\* no alert handed to the notifiers
NoFanOut == [pc |-> "off"]

\* the notifiers AlertEngine._create_notifier can build, in its order
ENGINE_NOTIFIERS == <<"TelegramNotifier", "EmailNotifier", "WebhookNotifier">>

\* the lists _create_notifier builds from the settings: a sublist of
\* ENGINE_NOTIFIERS (the empty one stands for the notifier None)
EngineNotifierLists ==
    { SelectSeq(ENGINE_NOTIFIERS, LAMBDA n : n \in chosen) :
          chosen \in SUBSET Range(ENGINE_NOTIFIERS) }

\* a list of n notifiers of one class
Repeat(cls, n) == [k \in 1..n |-> cls]

\* texts of filings: EntryTexts and one of medium priority that is no noise
AlertTexts ==
    EntryTexts \cup {[keyword |-> "medium", matches |-> {"contract_partnership"},
                      noise |-> FALSE]}

\* the alerts the collectors yield
CollectedAlerts ==
    {parse_entry(1, text) : text \in AlertTexts} \cup {parse_approval_row(1)}

\* a variant that lets every alert through
should_notify_always(min_setting, alert) == TRUE

\* AlertEngine._should_notify(alert)
should_notify(min_setting, alert) ==
    LET min_priority == Lower(min_setting)
        priority_order == <<LOW, MEDIUM, HIGH>>
        alert_level == Index(priority_order, alert.priority)
        min_level == Index(priority_order,
                           IF min_priority = "high" THEN HIGH
                           ELSE IF min_priority = "medium" THEN MEDIUM
                           ELSE LOW)
    IN  alert_level >= min_level

\* the test before the Feishu card: HIGH priority, or "FDA" in alert.source
feishu_gate(alert) == alert.priority = HIGH \/ alert.source = "FDA"

\* an AI suggestion is 0 for null, 1 for the text returned to the engine,
\* 1 + k for the text returned to the k-th notifier
NoSend == [pc |-> "pending", invoked |-> 0, suggestion |-> 0, ret |-> "none"]

\* notifier.send(alert, ai_suggestion) up to its first await: TelegramNotifier
\* and EmailNotifier ask the provider themselves if with_ai is set and they
\* were given no suggestion
notifier_send(cls, with_ai, ai_suggestion) ==
    IF cls \in {"TelegramNotifier", "EmailNotifier"} /\ with_ai /\ ai_suggestion = 0
    THEN [pc |-> "analyze", invoked |-> 1, suggestion |-> 0, ret |-> "none"]
    ELSE [pc |-> "post", invoked |-> 1, suggestion |-> ai_suggestion, ret |-> "none"]

\* what send returns when its delivery returns true or false, or raises: the
\* notifiers of notifier.py catch the exception and return False; a Notifier
\* or BaseNotifier of another class may raise
send_result(cls, res) ==
    IF cls \in {"TelegramNotifier", "EmailNotifier", "WebhookNotifier"} /\ res = "raised"
    THEN "false"
    ELSE res

\* a variant of gather without return_exceptions: the first exception is
\* propagated to the caller
gather_propagates(sends) ==
    [done |-> \/ \A k \in 1..Len(sends) : sends[k].ret # "none"
              \/ \E k \in 1..Len(sends) : sends[k].ret = "raised",
     raised |-> \E k \in 1..Len(sends) : sends[k].ret = "raised"]

\* asyncio.gather(*sends, return_exceptions=True): it returns when every
\* send has returned or raised, and it raises nothing
gather(sends) ==
    [done |-> \A k \in 1..Len(sends) : sends[k].ret # "none", raised |-> FALSE]

\* the calls of analyze made so far by notifiers
NotifierCalls(sends) ==
    Cardinality({k \in 1..Len(sends) : sends[k].pc = "analyze"})

\* MultiNotifier.send(alert, ai_suggestion) up to its await, and the rest of
\* the caller if nothing is awaited
MultiNotifier_send(f, ai_suggestion) ==
    LET sends == [k \in 1..Len(f.notifiers) |->
                     notifier_send(f.notifiers[k], f.enable_ai, ai_suggestion)]
        g == gather(sends)
    IN  [f EXCEPT !.pc = IF g.raised THEN "raised"
                         ELSE IF g.done THEN "returned" ELSE "gather",
                  !.notified = TRUE,
                  !.ai_suggestion = ai_suggestion,
                  !.send = sends,
                  !.calls = @ + NotifierCalls(sends),
                  !.feishu = f.engine = "AlertEngine" /\ g.done /\ ~g.raised
                                 /\ feishu_gate(f.alert)]

\* DuettoEngine._process_and_notify from notifier i on, up to the await of
\* its send, or to the end of the loop
notifiers_loop(f, i) ==
    IF i > Len(f.notifiers)
    THEN [f EXCEPT !.pc = "returned", !.i = 0]
    ELSE [f EXCEPT !.pc = "loop", !.i = i, !.notified = TRUE,
                   !.send[i] = notifier_send(f.notifiers[i], FALSE, 0)]

\* the state of a delivery whose send k has returned or raised
after_send(f, k, ret) ==
    LET sends == [f.send EXCEPT ![k] = [@ EXCEPT !.pc = "done", !.ret = ret]]
        g == gather(sends)
        f1 == [f EXCEPT !.send = sends]
    IN  IF f.engine = "DuettoEngine"
        THEN notifiers_loop(f1, k + 1)
        ELSE IF g.raised THEN [f1 EXCEPT !.pc = "raised"]
        ELSE IF g.done
        THEN [f1 EXCEPT !.pc = "returned",
                        !.feishu = f.engine = "AlertEngine" /\ feishu_gate(f.alert)]
        ELSE f1

\* no provider
NoAnalyze == [pc |-> "off"]

\* the provider classes that call an HTTP API
ApiProviders == {"OpenAIProvider", "AnthropicProvider"}

\* a response body: is it JSON, is the JSON a dict, the value of the list
\* ("choices" for OpenAI, "content" for Anthropic: missing, null, empty or
\* with items), the first item (a dict or a string), the "message" of the
\* item (OpenAI only) and the content ("content" of the message for OpenAI,
\* "text" of the item for Anthropic)
Body(json, dict, list, first, message, content) ==
    [json |-> json, dict |-> dict, list |-> list, first |-> first,
     message |-> message, content |-> content]

Bodies ==
    { Body(FALSE, FALSE, "missing", "dict", "missing", "missing"),
      Body(TRUE, FALSE, "missing", "dict", "missing", "missing"),
      Body(TRUE, TRUE, "missing", "dict", "missing", "missing"),
      Body(TRUE, TRUE, "null", "dict", "missing", "missing"),
      Body(TRUE, TRUE, "empty", "dict", "missing", "missing"),
      Body(TRUE, TRUE, "items", "string", "missing", "missing"),
      Body(TRUE, TRUE, "items", "dict", "missing", "text"),
      Body(TRUE, TRUE, "items", "dict", "null", "text"),
      Body(TRUE, TRUE, "items", "dict", "dict", "missing"),
      Body(TRUE, TRUE, "items", "dict", "dict", "null"),
      Body(TRUE, TRUE, "items", "dict", "dict", "number"),
      Body(TRUE, TRUE, "items", "dict", "dict", "empty"),
      Body(TRUE, TRUE, "items", "dict", "dict", "blank"),
      Body(TRUE, TRUE, "items", "dict", "dict", "text") }

\* what session.post meets: a network error, or a response
HttpOutcomes ==
    {[kind |-> "error", status |-> 0, body |-> Body(FALSE, FALSE, "missing", "dict",
                                                     "missing", "missing")]}
        \cup {[kind |-> "response", status |-> st, body |-> b] :
                  st \in {200, 429, 500}, b \in Bodies}

Raised == [raised |-> TRUE, ret |-> "null"]
Returns(value) == [raised |-> FALSE, ret |-> value]

\* "content.strip() if content else None" on the value found
strip_content(content) ==
    CASE content \in {"missing", "null", "empty"} -> Returns("null")
      [] content = "number" -> Raised       \* AttributeError: no strip
      [] content = "blank" -> Returns("empty")
      [] OTHER -> Returns("text")

\* data = await response.json() and the extraction of the content: OpenAI
\* data.get("choices", [{}])[0].get("message", {}).get("content", ""),
\* Anthropic data.get("content", [{}])[0].get("text", "")
extract_content(provider, body) ==
    IF ~body.json THEN Raised                    \* response.json() raises
    ELSE IF ~body.dict THEN Raised               \* AttributeError: no get
    ELSE IF body.list \in {"null", "empty"} THEN Raised  \* TypeError, IndexError
    ELSE IF body.list = "missing" THEN strip_content("missing")
    ELSE IF body.first # "dict" THEN Raised      \* AttributeError: no get
    ELSE IF provider = "AnthropicProvider" THEN strip_content(body.content)
    ELSE IF body.message = "null" THEN Raised    \* AttributeError: no get
    ELSE IF body.message = "missing" THEN strip_content("missing")
    ELSE strip_content(body.content)

\* the body of the try block of analyze, after the test of the key
analyze_try(provider, http) ==
    IF http.kind = "error" THEN Raised
    ELSE IF http.status # 200 THEN Returns("null")
    ELSE extract_content(provider, http.body)

\* a variant without "except Exception"
analyze_uncaught(provider, api_key, http) ==
    IF ~api_key
    THEN [raised |-> FALSE, ret |-> "null", requests |-> 0]
    ELSE LET r == analyze_try(provider, http)
         IN  [raised |-> r.raised, ret |-> r.ret, requests |-> 1]

\* OpenAIProvider.analyze, AnthropicProvider.analyze
analyze(provider, api_key, http) ==
    IF ~api_key
    THEN [raised |-> FALSE, ret |-> "null", requests |-> 0]
    ELSE LET r == analyze_try(provider, http)
         IN  [raised |-> FALSE, ret |-> IF r.raised THEN "null" ELSE r.ret,
              requests |-> 1]

\* no collector
NoLife == [pc |-> "off"]

\* the collector classes
CollectorKinds == {"SECEdgarCollector", "FDACollector", "TradingViewCollector"}

\* a collector after __init__: _running, _session (0 for None, else the number
\* of the ClientSession object), the sessions created and those closed, _ws,
\* the _run_loop tasks by position, the queue, the collect() generator (col,
\* pos), the session of the request collect() awaits (fetching), the start()
\* and stop() calls made, where collect() was when stop() was last called
\* with no start() since ("no": no such stop), whether the request that was
\* awaited at that stop() is still awaited (pending), whether such a request
\* has ended without raising (hit), whether a stop() that followed a
\* stop() changed the collector (restop), and whether a request of the
\* current or last collect() call raised (raised)
NewCollector(kind) ==
    [pc |-> "ready", kind |-> kind, running |-> FALSE, session |-> 0, created |-> 0,
     closed |-> {}, ws |-> "none", tasks |-> [new |-> 0, reading |-> 0, sleeping |-> 0],
     queued |-> FALSE, col |-> "off", pos |-> 0, fetching |-> 0, calls |-> 0,
     stopped |-> "no", pending |-> FALSE, hit |-> FALSE, restop |-> FALSE,
     raised |-> FALSE]

\* the ClientSession objects that are not closed
OpenSessions(l) == (1..l.created) \ l.closed

\* the _run_loop tasks that have not returned
LoopTasks(l) == l.tasks.new + l.tasks.reading + l.tasks.sleeping

\* the feeds of collect(): SEC_FEEDS, the years of FDACollector
LifePages(kind) == IF kind = "SECEdgarCollector" THEN Len(SEC_FEEDS) ELSE Len(years_to_check)

\* start(): SECEdgarCollector and FDACollector create a ClientSession and set
\* _running; TradingViewCollector sets _running and creates a _run_loop task
start(l) ==
    IF l.kind = "TradingViewCollector"
    THEN [l EXCEPT !.running = TRUE, !.tasks.new = @ + 1, !.stopped = "no",
                   !.pending = FALSE]
    ELSE [l EXCEPT !.running = TRUE, !.session = l.created + 1, !.created = @ + 1,
                   !.stopped = "no", !.pending = FALSE]

\* "if self._session: await self._session.close()"
close_session(l) ==
    IF l.session # 0 THEN [l EXCEPT !.closed = @ \cup {l.session}] ELSE l

\* stop(): _running is cleared, TradingViewCollector closes _ws if it is set,
\* the session is closed if it is set
stop(l) ==
    LET l1 == [l EXCEPT !.running = FALSE,
                        !.ws = IF l.kind = "TradingViewCollector" /\ @ = "open"
                               THEN "closed" ELSE @,
                        !.stopped = IF l.col \in {"fetch", "sleep", "yielded"}
                                    THEN l.col ELSE "idle",
                        !.pending = (l.col = "fetch")]
    IN  close_session(l1)

\* collect() issues the request of its next feed on the session it holds
fetch_next(l) == [l EXCEPT !.col = "fetch", !.pos = @ + 1, !.fetching = l.session]

\* collect() of SECEdgarCollector and FDACollector after a fetch: the sleep of
\* SECEdgarCollector, then the next feed, or the end
after_fetch(l) ==
    IF l.kind = "SECEdgarCollector"
    THEN [l EXCEPT !.col = "sleep"]
    ELSE IF l.pos < LifePages(l.kind)
    THEN fetch_next(l)
    ELSE [l EXCEPT !.col = "done", !.pos = 0]

\* an exception of the request: _fetch_feed and _fetch_approvals catch and
\* log it, and collect() goes on
fetch_raised(l) == after_fetch(l)

\* collect() of SECEdgarCollector after its sleep
after_sleep(l) ==
    IF l.pos < LifePages(l.kind)
    THEN fetch_next(l)
    ELSE [l EXCEPT !.col = "done", !.pos = 0]

\* _run_loop from the test of its while loop to its next await, or its end:
\* it returns if _running is clear; else it creates the session if there is
\* none and connects, which raises if the session is closed or the network
\* fails (connected = FALSE); the exception is caught and the task sleeps
run_loop_pass(l, from, connected) ==
    LET t == [l.tasks EXCEPT ![from] = @ - 1]
    IN  IF ~l.running
        THEN [l EXCEPT !.tasks = t]
        ELSE LET l1 == IF l.session = 0
                       THEN [l EXCEPT !.session = l.created + 1, !.created = @ + 1]
                       ELSE l
             IN  IF connected /\ l1.session \notin l1.closed
                 THEN [l1 EXCEPT !.tasks = [t EXCEPT !.reading = @ + 1], !.ws = "open"]
                 ELSE [l1 EXCEPT !.tasks = [t EXCEPT !.sleeping = @ + 1]]

(***************************************************************************)
(* State after construction.                                               *)
(***************************************************************************)
CacheInit ==
    /\ cache = <<>>
    /\ cacheLog = <<>>
    /\ lruSet = {}
    /\ lruQueue = <<>>
    /\ lruLog = <<>>

\* DedupProcessor.__init__
DedupInit ==
    /\ seen = {}
    /\ dedupLog = <<>>

\* no filter function called and no pipeline run yet
NoCalls ==
    /\ call = [fn |-> "none"]
    /\ run = [alert |-> None, calls |-> <<>>, out |-> None]
    /\ handoff = [engine |-> "none"]

\* no engine
NoSup == [pc |-> "off"]

\* settings.sec_poll_interval and settings.fda_poll_interval, in seconds
SEC_POLL_INTERVAL == 30
FDA_POLL_INTERVAL == 300

\* the sleep at the end of an iteration of _run_sec_loop or _run_fda_loop
poll_interval(d) == IF d = "sec" THEN SEC_POLL_INTERVAL ELSE FDA_POLL_INTERVAL

\* the holders of an HTTP session: the collectors, the FeishuService, the
\* TelegramNotifier and the OpenAIProvider
SessionHolders == {"sec", "fda", "feishu", "notifier", "ai"}

\* a driver task that does not exist
NoDriver == [pc |-> "off", alert |-> None, fails |-> 0, wait |-> 0, ended |-> "no"]

\* the drivers an engine creates: AlertEngine.run the SEC loop and, if
\* settings.monitor_fda, the FDA loop; DuettoEngine.start one task per
\* collector of its list, which holds a SECEdgarCollector
EngineDrivers(s) ==
    IF s.engine = "AlertEngine"
    THEN IF s.monitor_fda THEN {"sec", "fda"} ELSE {"sec"}
    ELSE {"sec"}

\* the collectors an engine holds
EngineCollectors(s) == IF s.engine = "AlertEngine" THEN {"sec", "fda"} ELSE {"sec"}

\* an engine after __init__.  notifier: a TelegramNotifier is configured
\* (AlertEngine), a FeishuNotifier is configured (DuettoEngine); with_ai:
\* enable_ai_in_notifications with an OpenAIProvider; task: the task of run()
\* (AlertEngine) or start() (DuettoEngine); stopped: a stop() call has
\* returned; cards: per driver, the send_alert tasks created and not yet run,
\* and those awaiting their post; late: an alert was broadcast or sent after
\* a stop() call had returned; survived: a broadcast of one driver returned
\* after another driver had failed
NewEngine(engine, monitor_fda, notifier, with_ai) ==
    [pc |-> "ready", engine |-> engine, monitor_fda |-> monitor_fda, notifier |-> notifier,
     with_ai |-> with_ai, running |-> FALSE, task |-> "none", stopped |-> FALSE,
     drv |-> [d \in Drivers |-> NoDriver],
     session |-> [h \in SessionHolders |-> "none"],
     cards |-> [d \in Drivers |-> [created |-> 0, posting |-> 0]],
     late |-> FALSE, survived |-> FALSE]

\* collector.start() of each collector in c: a session is created
collectors_start(s, c) ==
    [s EXCEPT !.session = [h \in SessionHolders |-> IF h \in c THEN "open" ELSE @[h]]]

\* "if self._session: await self._session.close()" of each holder in c
sessions_close(s, c) ==
    [s EXCEPT !.session = [h \in SessionHolders |->
                              IF h \in c /\ @[h] = "open" THEN "closed" ELSE @[h]]]

\* _get_session of the TelegramNotifier and of the OpenAIProvider: a new
\* session if there is none or it is closed
get_session(s, h) == [s EXCEPT !.session[h] = "open"]

\* AlertEngine.start
AlertEngine_start(s) == collectors_start([s EXCEPT !.running = TRUE], {"sec", "fda"})

\* AlertEngine.stop: the collectors and the FeishuService are stopped;
\* DuettoEngine.stop: the collectors are stopped
engine_stop(s) ==
    LET s1 == [s EXCEPT !.running = FALSE, !.stopped = TRUE]
    IN  IF s.engine = "AlertEngine"
        THEN sessions_close(s1, {"sec", "fda", "feishu"})
        ELSE sessions_close(s1, {"sec"})

\* a variant of the handling of a driver's exception that lets it reach
\* gather: run() ends, its finally stops the engine and the other drivers
\* are cancelled
driver_failed_propagates(s, d) ==
    LET s1 == [s EXCEPT !.drv = [e \in Drivers |->
                   IF e = d THEN [@[e] EXCEPT !.pc = "done", !.alert = None,
                                              !.fails = @ + 1, !.ended = "failed"]
                   ELSE IF @[e].pc \in {"off", "done"} THEN @[e]
                   ELSE [@[e] EXCEPT !.pc = "done", !.alert = None, !.ended = "cancelled"]],
                         !.task = "done"]
    IN  engine_stop(s1)

\* an exception in the driver d.  AlertEngine: the except of _collect_sec or
\* _collect_fda logs it and the loop sleeps for the poll interval;
\* DuettoEngine: the except of _run_collector logs it and the task ends
driver_failed(s, d) ==
    IF s.engine = "AlertEngine"
    THEN [s EXCEPT !.drv[d] = [@ EXCEPT !.pc = "sleep", !.alert = None, !.fails = @ + 1,
                                        !.wait = poll_interval(d)]]
    ELSE [s EXCEPT !.drv[d] = [@ EXCEPT !.pc = "done", !.alert = None, !.fails = @ + 1,
                                        !.ended = "failed"]]

\* the generator of collect() is exhausted.  AlertEngine: _collect_* returns
\* and the loop sleeps for the poll interval; DuettoEngine: _run_collector
\* returns
cycle_end(s, d) ==
    IF s.engine = "AlertEngine"
    THEN [s EXCEPT !.drv[d] = [@ EXCEPT !.pc = "sleep", !.fails = 0,
                                        !.wait = poll_interval(d)]]
    ELSE [s EXCEPT !.drv[d] = [@ EXCEPT !.pc = "done", !.ended = "cycle"]]

\* the end of _process_alert: the Feishu card of a HIGH or FDA alert is
\* handed to a new task, and the driver asks the collector for the next
\* alert.  _process_and_notify has no such task.
process_end(s, d) ==
    LET card == s.engine = "AlertEngine" /\ feishu_gate(s.drv[d].alert)
    IN  [s EXCEPT !.drv[d] = [@ EXCEPT !.pc = "collecting", !.alert = None],
                  !.cards[d].created = IF card THEN @ + 1 ELSE @]

\* _process_alert and _process_and_notify after the broadcast: the notifier,
\* with the AI suggestion first if it is enabled
after_broadcast(s, d, min_setting) ==
    LET notify == IF s.engine = "AlertEngine"
                  THEN s.notifier /\ should_notify(min_setting, s.drv[d].alert)
                  ELSE s.notifier
    IN  IF ~notify THEN process_end(s, d)
        ELSE IF s.engine = "AlertEngine" /\ s.with_ai
        THEN get_session([s EXCEPT !.drv[d].pc = "analyze"], "ai")
        ELSE IF s.engine = "AlertEngine"
        THEN get_session([s EXCEPT !.drv[d].pc = "send"], "notifier")
        ELSE [s EXCEPT !.drv[d].pc = "send"]

\* no recent-history list
NoRecent == [pc |-> "off"]

\* AlertEngine._max_recent
max_recent == 100

\* Python's list[:stop]: the first stop elements, all of them if there are
\* fewer; a negative stop counts from the end
slice_to(list, end) ==
    LET last == IF end >= 0 THEN Min(end, Len(list))
                ELSE IF Len(list) + end > 0 THEN Len(list) + end ELSE 0
    IN  SubSeq(list, 1, last)

\* _process_alert: the alert is inserted at index 0 and the list is cut to
\* its first _max_recent entries
recent_store(list, alert) ==
    LET inserted == <<alert>> \o list
    IN  IF Len(inserted) > max_recent THEN slice_to(inserted, max_recent) ELSE inserted

\* AlertEngine.get_recent_alerts(limit)
get_recent_alerts(list, limit) == slice_to(list, limit)

\* the limits given to GET /api/alerts: any integer, 50 if none is given
Limits == {-1, 0, 1, 50, 100, 101}

\* an AlertEngine after __init__: _recent_alerts is empty.  stored counts the
\* alerts that passed the filter, each alert being the number it got then;
\* by is the driver that processed the last alert, last what became of it,
\* call the last get_recent_alerts call: its limit, the list it read (of)
\* and what it returned
NewRecent ==
    [pc |-> "ready", list |-> <<>>, stored |-> 0, by |-> "none", last |-> "none",
     call |-> [made |-> FALSE, limit |-> 0, of |-> <<>>, ret |-> <<>>]]

\* no caller of get_ticker_mapper
NoMapper == [pc |-> "off"]

\* the tasks that call get_ticker_mapper
Callers == 1..MaxCallers

\* the module utils/ticker_mapper.py after import: _ticker_mapper is None.
\* cache: whether the cache file exists; mapper: "none", or the TickerMapper
\* object with _loaded clear ("loading") or set ("loaded"); loads: the load()
\* calls that went past the _loaded test; task: where each caller stands;
\* got: what get_ticker_mapper returned to it; table: whether the lookup
\* tables are filled; looked: the outcome of the caller's cik_to_ticker
NewMapper(cache_file) ==
    [pc |-> "ready", cache |-> cache_file, mapper |-> "none", loads |-> 0,
     table |-> "empty",
     task |-> [t \in Callers |-> "idle"], got |-> [t \in Callers |-> "none"],
     looked |-> [t \in Callers |-> "no"]]

\* what a caller is given: the global object, whose load has completed or not
returned_mapper(m) == IF m.mapper = "loaded" THEN "loaded" ELSE "unloaded"

\* cik_to_ticker of a listed company: the ticker once the tables are filled,
\* None while they are empty
cik_to_ticker(m) == IF m.table = "full" THEN "found" ELSE "missed"

\* no alert built
NoBuilt == [pc |-> "off"]

\* _clean_summary keeps at most this many characters
SUMMARY_LIMIT == 500

\* lengths of a feed entry's summary, raw and as text: empty, short, and
\* around the limit
TextLens == {0, 40} \cup {SUMMARY_LIMIT + k : k \in (0 - MaxOver)..MaxOver}

\* lengths of a table cell or a company name
CellLens == {0, 10} \cup {240 + k : k \in 0..MaxOver} \cup {480 + k : k \in 0..MaxOver}

\* lengths of a ticker, of a change formatted with two decimals, of a price
TickerLens == {1, 4}
PctLens == {4, 6}
PriceLens == {3, 6}

\* _clean_summary, on lengths: "" for an empty summary; the text that
\* BeautifulSoup extracts, cut to SUMMARY_LIMIT characters; the raw summary
\* cut the same way when the parser raises
clean_summary(raw, text, parsed) ==
    IF raw = 0 THEN 0
    ELSE IF parsed THEN (IF text > SUMMARY_LIMIT THEN SUMMARY_LIMIT ELSE text)
    ELSE Min(raw, SUMMARY_LIMIT)

\* the length of f"{drug_name} ({active_ingredient}) approved on
\* {approval_date}. Company: {company}": the four cells and 27 fixed characters
fda_summary(drug_name, active_ingredient, approval_date, company) ==
    drug_name + 2 + active_ingredient + 14 + approval_date + 11 + company

\* the length of f"{company} ({ticker}) moved {change_pct:.2f}%. Price:
\* {price}": the four values and 20 fixed characters
tv_summary(company, ticker, change_pct, price) ==
    company + 2 + ticker + 8 + change_pct + 10 + price

\* an alert a collector has built: its collector, the length of its summary,
\* and how far it has got (none, emitted, processed, dropped)
NewBuilt == [pc |-> "ready", kind |-> "none", summary |-> 0, stage |-> "none"]

\* no alert dropped
NoDrop == [pc |-> "off"]

\* no TradingViewCollector
NoTv == [pc |-> "off"]

\* settings.tv.threshold_pct as configured: the default and zero
TV_THRESHOLD_PCT == 10
Thresholds == {0, TV_THRESHOLD_PCT}

\* the priority is HIGH above this change
TV_HIGH_PCT == 20

\* settings.tv.symbols, two of them
Symbols == {"NASDAQ:AAPL", "NASDAQ:MSFT"}

\* the chp values of quote frames, in percent
Changes == {-25, 0, 10, 20, 25}

\* the seconds of the clock that stamps the ids
Seconds == {0, 1}

\* abs()
Abs(x) == IF x < 0 THEN 0 - x ELSE x

\* values.get("chp") or values.get("ch_p"), the frame carrying chp only: a
\* chp of 0 is falsy, so the value is that of the absent ch_p, None
quote_change(chp) == IF chp # 0 THEN [none |-> FALSE, pct |-> chp] ELSE [none |-> TRUE, pct |-> 0]

\* the Alert _create_alert builds: the id is made of the ticker, the clock's
\* second and abs(int(change_pct * 100))
price_move(symbol, change_pct, second) ==
    [id |-> <<symbol, second, Abs(change_pct) * 100>>,
     priority |-> IF Abs(change_pct) > TV_HIGH_PCT THEN HIGH ELSE MEDIUM,
     direction |-> IF change_pct > 0 THEN "UP" ELSE "DOWN",
     change_pct |-> change_pct]

\* a variant of the get that takes the newest item
queue_get_last(q) == [item |-> q[Len(q)], rest |-> SubSeq(q, 1, Len(q) - 1)]

\* self._queue.get() on a queue that is not empty: the oldest item leaves it
queue_get(q) == [item |-> Head(q), rest |-> Tail(q)]

\* _create_alert: evaluating AlertType.STOCK_MOVEMENT raises AttributeError
\* where the enum has no such member (_handle_message catches and logs it);
\* else the alert is built and put on the queue, which asyncio.Queue() never
\* refuses
create_alert(t, symbol, change_pct) ==
    IF ~t.stock_movement
    THEN [t EXCEPT !.raised = @ + 1]
    ELSE LET alert == price_move(symbol, change_pct, t.second)
         IN  [t EXCEPT !.queue = Append(@, alert), !.put = @ + 1, !.log = Append(@, alert)]

\* _process_quote(symbol, values)
process_quote(t, symbol, chp) ==
    LET change_pct == quote_change(chp)
    IN  IF ~change_pct.none /\ Abs(change_pct.pct) >= t.threshold
        THEN create_alert(t, symbol, change_pct.pct)
        ELSE t

\* a TradingViewCollector after __init__.  stock_movement: whether the
\* AlertType the module imports has the member STOCK_MOVEMENT (duetto/schemas.py
\* has STOCK_MOV instead; duetto/models/alert.py has it).  queue: _queue; put:
\* the number of alerts put on it so far and log: these alerts, in the order
\* of the puts; col: where collect() is ("loop": at its while self._running,
\* "yield": suspended at its yield); yielded: what collect() has yielded; frames:
\* the quote frames handled; last: the last of them, with the number of alerts
\* it put on the queue and the last of these
NewTv(threshold, stock_movement) ==
    [pc |-> "ready", threshold |-> threshold, stock_movement |-> stock_movement,
     running |-> FALSE, col |-> "none", second |-> 0,
     queue |-> <<>>, put |-> 0, log |-> <<>>, raised |-> 0, yielded |-> <<>>, frames |-> 0,
     last |-> [made |-> FALSE, symbol |-> "", chp |-> 0, enqueued |-> 0,
               alert |-> price_move("", 0, 0)]]

\* no _run_loop task
NoSock == [pc |-> "off"]

\* the sleep of _run_loop before it connects again, in seconds
RECONNECT_DELAY == 5

\* settings.tv.symbols, in the list's order
TV_SYMBOLS == <<"NASDAQ:AAPL", "NASDAQ:MSFT">>

\* the messages _run_loop sends after it connected, in the order of its code
Handshake ==
    <<"set_auth_token", "chart_create_session", "quote_create_session", "quote_set_fields">>

\* a variant that subscribes only the symbols not yet in _subscribed_symbols
subscriptions_new_only(subscribed) ==
    SelectSeq(TV_SYMBOLS, LAMBDA symbol : symbol \notin subscribed)

\* the for loop over settings.tv.symbols: one quote_add_symbols per symbol,
\* whatever _subscribed_symbols holds
subscriptions(subscribed) == TV_SYMBOLS

\* what _run_loop sends on a new connection before it reads
send_plan(subscribed) == Handshake \o subscriptions(subscribed)

\* _run_loop after its try statement: it sleeps if _running is set, and then,
\* or at once, tests its while condition
after_try(k) ==
    IF k.running
    THEN [k EXCEPT !.pc = "sleeping", !.wait = RECONNECT_DELAY]
    ELSE [k EXCEPT !.pc = "ended"]

\* the _run_loop task created by start().  pc: "loop" (at the while test),
\* "handshake", "reading", "sleeping", "ended"; session: "none", "open",
\* "closed"; plan: the messages to send on the current connection; sent:
\* those sent so far; subscribed:
\* _subscribed_symbols; connects: the ws_connect calls made; handled: the
\* frames handled on the current connection; wait: the last sleep; late: a
\* ws_connect was made with _running clear
NewSock ==
    [pc |-> "loop", running |-> TRUE, session |-> "none", plan |-> <<>>, sent |-> <<>>,
     subscribed |-> {}, connects |-> 0, handled |-> 0, wait |-> 0, late |-> FALSE]

\* no parse attempt recorded
NoTries == [pc |-> "off"]

\* the record of the tracked id in a SECEdgarCollector.  attempts: the
\* _parse_entry calls made for it since it was last evicted from _seen_ids
\* (2 stands for more); failed: one of them returned None; emitted: the
\* alerts yielded for it since; fresh: the cycle of the last attempt is not
\* over; again: after a failed attempt the id was shown in a later cycle
NewTries ==
    [pc |-> "on", attempts |-> 0, failed |-> FALSE, emitted |-> 0, fresh |-> FALSE,
     again |-> FALSE]

\* a variant that parses the entry first and records the id only if an alert
\* came of it
fetch_entry_parse_first(seen_ids, alert_id, parsed) ==
    LET r == LRUCache_add(seen_ids, SeenCapacity, alert_id)
    IN  IF parsed
        THEN [cache |-> r.cache, attempted |-> TRUE, emitted |-> r.ret]
        ELSE [cache |-> seen_ids, attempted |-> TRUE, emitted |-> FALSE]

\* the body of the for loop of _fetch_feed for one entry: the id is added to
\* _seen_ids; if it was there the entry is passed over; else _parse_entry is
\* called and its alert, if it returns one, is yielded
fetch_entry(seen_ids, alert_id, parsed) ==
    LET r == LRUCache_add(seen_ids, SeenCapacity, alert_id)
    IN  [cache |-> r.cache, attempted |-> r.ret, emitted |-> r.ret /\ parsed]

\* the record after the entry alert_id was gone over with the result e, the
\* cache being seen_ids before it
Tried(t, seen_ids, alert_id, parsed, e) ==
    IF t.pc = "off" THEN t
    ELSE IF tracked \in Range(seen_ids) /\ tracked \notin Range(e.cache) THEN NewTries
    ELSE IF alert_id # tracked THEN t
    ELSE [t EXCEPT !.attempts = IF e.attempted THEN Min(@ + 1, 2) ELSE @,
                   !.failed = @ \/ (e.attempted /\ ~parsed),
                   !.emitted = IF e.emitted THEN Min(@ + 1, 2) ELSE @,
                   !.fresh = @ \/ e.attempted,
                   !.again = @ \/ (t.failed /\ ~t.fresh)]

\* the record when a new cycle begins
NextCycle(t) == IF t.pc = "off" THEN t ELSE [t EXCEPT !.fresh = FALSE]

\* no FDACollector cycle
NoScan == [pc |-> "off"]

\* the numbers of rows of an approvals table: none, one, and around the limit
RowCounts == {0, 1} \cup {FDA_ROW_LIMIT + k : k \in (0 - 1)..MaxRowsOver}

\* the rows of a table that give an alert whose id is new: the first, the
\* last one within the limit, the first one beyond it
FreshRows == SUBSET {1, FDA_ROW_LIMIT, FDA_ROW_LIMIT + 1}

\* rows[:20]: the number of rows the for loop goes over
rows_considered(n) == Min(n, FDA_ROW_LIMIT)

\* count after the for loop over a table of n rows whose rows in fresh give a
\* new alert
page_count(n, fresh) == Cardinality({i \in fresh : i <= rows_considered(n)})

\* a variant without the break after a page that yielded alerts
next_year_no_break(c, count) ==
    IF c.pos < Len(years_to_check)
    THEN [c EXCEPT !.pos = @ + 1]
    ELSE [c EXCEPT !.pc = "done"]

\* the year loop after a page that yielded count alerts (break if count > 0),
\* or after a continue (count = 0)
next_year(c, count) ==
    IF count = 0 /\ c.pos < Len(years_to_check)
    THEN [c EXCEPT !.pos = @ + 1]
    ELSE [c EXCEPT !.pc = "done"]

\* a cycle of _fetch_approvals about to fetch its first page; pages: per page
\* fetched, its year (as index of years_to_check), whether a table came,
\* its rows, the fresh ones, the rows gone over and the alerts yielded
NewScan == [pc |-> "fetch", pos |-> 1, pages |-> <<>>]

\* nothing dropped, no TradingViewCollector, no parse attempt recorded
FinalInit ==
    /\ dropped = NoDrop
    /\ tv = NoTv
    /\ sock = NoSock
    /\ tries = NoTries
    /\ scan = NoScan

\* no engine under stop(), no ring, no ticker mapper, no alert built
LateInit ==
    /\ sup = NoSup
    /\ recent = NoRecent
    /\ tm = NoMapper
    /\ built = NoBuilt

\* nothing delivered, no analyze call, no start() or stop() call
ServiceInit ==
    /\ fan = NoFanOut
    /\ ai = NoAnalyze
    /\ life = NoLife

\* an engine or a MultiNotifier constructed, no alert handed to it
NewFanOut(engine, notifiers, enable_ai) ==
    [pc |-> "ready", engine |-> engine, notifiers |-> notifiers, enable_ai |-> enable_ai,
     alert |-> None, notified |-> FALSE, ai_suggestion |-> 0, calls |-> 0, i |-> 0,
     send |-> [k \in 1..Len(notifiers) |-> NoSend], feishu |-> FALSE]

\* SECEdgarCollector.__init__, FDACollector.__init__
CollectorInit ==
    /\ colSession = "none"
    /\ colRunning = FALSE
    /\ colSeen = <<>>
    /\ gen = GenOff
    /\ hist = NoHist

\* WebSocketManager.__init__ and no client yet
HubInit ==
    /\ connections = <<>>
    /\ lock = "free"
    /\ waiters = <<>>
    /\ endpoint = [ws \in Clients |-> "new"]
    /\ bc = [d \in Drivers |-> NoBroadcast]
    /\ hubError = FALSE

\* AlertEngine.__init__ with its SEC collector and its WebSocketManager, nothing started
EngineInit ==
    /\ HubInit
    /\ hubKind = "services"
    /\ callers = Drivers
    /\ CollectorInit
    /\ colKind = "SECEdgarCollector"
    /\ tracked = 0
    /\ engineKind = "AlertEngine"
    /\ engineRunning = FALSE
    /\ drv = "init"
    /\ outcome = "none"

\* Settings() defaults, AlertEngine.__init__ and DuettoEngine.__init__
Init ==
    /\ CacheInit
    /\ FinalInit
    /\ DedupInit
    /\ notify_min_priority = "medium"
    /\ alertFilter = [min_priority |-> LOW, filter_noise |-> TRUE, catalyst_types |-> <<>>]
    /\ processors = <<"DedupProcessor", "FilterProcessor">>
    /\ NoCalls
    /\ LateInit
    /\ ServiceInit
    /\ EngineInit

\* a collector of either class on its own, one source id tracked
InitCollect ==
    /\ CacheInit
    /\ FinalInit
    /\ DedupInit
    /\ notify_min_priority = "medium"
    /\ alertFilter = [min_priority |-> LOW, filter_noise |-> TRUE, catalyst_types |-> <<>>]
    /\ processors = <<"DedupProcessor", "FilterProcessor">>
    /\ NoCalls
    /\ LateInit
    /\ ServiceInit
    /\ HubInit
    /\ hubKind = "services"
    /\ callers = Drivers
    /\ CollectorInit
    /\ colKind \in {"SECEdgarCollector", "FDACollector"}
    /\ tracked \in SourceIds
    /\ engineKind = "none"
    /\ engineRunning = FALSE
    /\ drv = "none"
    /\ outcome = "none"

\* a SECEdgarCollector on its own, one source id tracked
InitParse ==
    /\ CacheInit
    /\ DedupInit
    /\ notify_min_priority = "medium"
    /\ alertFilter = [min_priority |-> LOW, filter_noise |-> TRUE, catalyst_types |-> <<>>]
    /\ processors = <<"DedupProcessor", "FilterProcessor">>
    /\ NoCalls
    /\ LateInit
    /\ ServiceInit
    /\ HubInit
    /\ hubKind = "services"
    /\ callers = Drivers
    /\ CollectorInit
    /\ colKind = "SECEdgarCollector"
    /\ tracked \in SourceIds
    /\ engineKind = "none"
    /\ engineRunning = FALSE
    /\ drv = "none"
    /\ outcome = "none"
    /\ dropped = NoDrop
    /\ tv = NoTv
    /\ sock = NoSock
    /\ tries = NewTries
    /\ scan = NoScan

\* an AlertEngine with one of its two collectors, or a DuettoEngine with its one
InitDriver ==
    /\ CacheInit
    /\ FinalInit
    /\ DedupInit
    /\ notify_min_priority = "medium"
    /\ alertFilter = [min_priority |-> LOW, filter_noise |-> TRUE, catalyst_types |-> <<>>]
    /\ processors = <<"DedupProcessor", "FilterProcessor">>
    /\ NoCalls
    /\ LateInit
    /\ ServiceInit
    /\ HubInit
    /\ hubKind = "services"
    /\ callers = Drivers
    /\ CollectorInit
    /\ engineKind \in {"AlertEngine", "DuettoEngine"}
    /\ colKind \in IF engineKind = "AlertEngine"
                   THEN {"SECEdgarCollector", "FDACollector"}
                   ELSE {"SECEdgarCollector"}
    /\ tracked = 0
    /\ engineRunning = FALSE
    /\ drv = "init"
    /\ outcome = "none"

\* AlertEngine with the notifiers of its settings, a MultiNotifier over
\* notifiers of any class, or DuettoEngine with its list of notifiers
InitNotify ==
    /\ CacheInit
    /\ FinalInit
    /\ DedupInit
    /\ notify_min_priority \in {"low", "medium", "high"}
    /\ alertFilter = [min_priority |-> LOW, filter_noise |-> TRUE, catalyst_types |-> <<>>]
    /\ processors = <<"DedupProcessor", "FilterProcessor">>
    /\ NoCalls
    /\ LateInit
    /\ EngineInit
    /\ fan \in {NewFanOut("AlertEngine", l, e) : l \in EngineNotifierLists, e \in BOOLEAN}
               \cup {NewFanOut("MultiNotifier", Repeat("Notifier", n), FALSE) :
                         n \in 0..MaxNotifiers}
               \cup {NewFanOut("DuettoEngine", Repeat("BaseNotifier", n), FALSE) :
                         n \in 0..MaxNotifiers}
    /\ ai = NoAnalyze
    /\ life = NoLife

\* a provider constructed with or without an API key
InitAnalyze ==
    /\ CacheInit
    /\ FinalInit
    /\ DedupInit
    /\ notify_min_priority = "medium"
    /\ alertFilter = [min_priority |-> LOW, filter_noise |-> TRUE, catalyst_types |-> <<>>]
    /\ processors = <<"DedupProcessor", "FilterProcessor">>
    /\ NoCalls
    /\ LateInit
    /\ EngineInit
    /\ fan = NoFanOut
    /\ ai \in {[pc |-> "ready", provider |-> cls, api_key |-> key, session |-> "none",
                log |-> <<>>] : cls \in ApiProviders, key \in BOOLEAN}
    /\ life = NoLife

\* a collector of any class, constructed
InitLife ==
    /\ CacheInit
    /\ FinalInit
    /\ DedupInit
    /\ notify_min_priority = "medium"
    /\ alertFilter = [min_priority |-> LOW, filter_noise |-> TRUE, catalyst_types |-> <<>>]
    /\ processors = <<"DedupProcessor", "FilterProcessor">>
    /\ NoCalls
    /\ LateInit
    /\ EngineInit
    /\ fan = NoFanOut
    /\ ai = NoAnalyze
    /\ life \in {NewCollector(kind) : kind \in CollectorKinds}

\* an engine of either class, constructed from its settings
InitEngine ==
    /\ CacheInit
    /\ FinalInit
    /\ DedupInit
    /\ notify_min_priority = "medium"
    /\ alertFilter = [min_priority |-> LOW, filter_noise |-> TRUE, catalyst_types |-> <<>>]
    /\ processors = <<"DedupProcessor", "FilterProcessor">>
    /\ NoCalls
    /\ EngineInit
    /\ ServiceInit
    /\ sup \in {NewEngine("AlertEngine", monitor_fda, notifier, with_ai) :
                    monitor_fda \in BOOLEAN, notifier \in BOOLEAN, with_ai \in BOOLEAN}
               \cup {NewEngine("DuettoEngine", FALSE, notifier, FALSE) : notifier \in BOOLEAN}
    /\ recent = NoRecent
    /\ tm = NoMapper
    /\ built = NoBuilt

\* an AlertEngine whose drivers process alerts, and the status endpoint
InitRecent ==
    /\ CacheInit
    /\ FinalInit
    /\ DedupInit
    /\ notify_min_priority = "medium"
    /\ alertFilter = [min_priority |-> LOW, filter_noise |-> TRUE, catalyst_types |-> <<>>]
    /\ processors = <<"DedupProcessor", "FilterProcessor">>
    /\ NoCalls
    /\ EngineInit
    /\ ServiceInit
    /\ sup = NoSup
    /\ recent = NewRecent
    /\ tm = NoMapper
    /\ built = NoBuilt

\* the ticker-mapper module, with or without a cache file on disk
InitMapper ==
    /\ CacheInit
    /\ FinalInit
    /\ DedupInit
    /\ notify_min_priority = "medium"
    /\ alertFilter = [min_priority |-> LOW, filter_noise |-> TRUE, catalyst_types |-> <<>>]
    /\ processors = <<"DedupProcessor", "FilterProcessor">>
    /\ NoCalls
    /\ EngineInit
    /\ ServiceInit
    /\ sup = NoSup
    /\ recent = NoRecent
    /\ tm \in {NewMapper(cache_file) : cache_file \in BOOLEAN}
    /\ built = NoBuilt

\* the collectors about to build an alert
InitBuilt ==
    /\ CacheInit
    /\ FinalInit
    /\ DedupInit
    /\ notify_min_priority = "medium"
    /\ alertFilter = [min_priority |-> LOW, filter_noise |-> TRUE, catalyst_types |-> <<>>]
    /\ processors = <<"DedupProcessor", "FilterProcessor">>
    /\ NoCalls
    /\ EngineInit
    /\ ServiceInit
    /\ sup = NoSup
    /\ recent = NoRecent
    /\ tm = NoMapper
    /\ built = NewBuilt

\* a WebSocketManager of either class, every driver calling its broadcast
InitConcurrent ==
    /\ CacheInit
    /\ FinalInit
    /\ DedupInit
    /\ notify_min_priority = "medium"
    /\ alertFilter = [min_priority |-> LOW, filter_noise |-> TRUE, catalyst_types |-> <<>>]
    /\ processors = <<"DedupProcessor", "FilterProcessor">>
    /\ NoCalls
    /\ LateInit
    /\ ServiceInit
    /\ HubInit
    /\ hubKind \in {"services", "server"}
    /\ callers = Drivers
    /\ CollectorInit
    /\ colKind = "SECEdgarCollector"
    /\ tracked = 0
    /\ engineKind = "none"
    /\ engineRunning = FALSE
    /\ drv = "none"
    /\ outcome = "none"

\* a WebSocketManager of either class, one driver calling its broadcast
InitHub ==
    /\ CacheInit
    /\ FinalInit
    /\ DedupInit
    /\ notify_min_priority = "medium"
    /\ alertFilter = [min_priority |-> LOW, filter_noise |-> TRUE, catalyst_types |-> <<>>]
    /\ processors = <<"DedupProcessor", "FilterProcessor">>
    /\ NoCalls
    /\ LateInit
    /\ ServiceInit
    /\ HubInit
    /\ hubKind \in {"services", "server"}
    /\ callers = {"sec"}
    /\ CollectorInit
    /\ colKind = "SECEdgarCollector"
    /\ tracked = 0
    /\ engineKind = "none"
    /\ engineRunning = FALSE
    /\ drv = "none"
    /\ outcome = "none"

\* a FilterProcessor under any setting and an AlertFilter built with any arguments
InitFilter ==
    /\ CacheInit
    /\ FinalInit
    /\ DedupInit
    /\ notify_min_priority \in MinSettings
    /\ alertFilter \in [min_priority : AlertPriority, filter_noise : BOOLEAN,
                        catalyst_types : CatalystTypeChoices]
    /\ processors = <<"DedupProcessor", "FilterProcessor">>
    /\ NoCalls
    /\ LateInit
    /\ ServiceInit
    /\ EngineInit

\* an AlertEngine whose AlertFilter was built with any arguments
InitDrop ==
    /\ CacheInit
    /\ DedupInit
    /\ notify_min_priority = "medium"
    /\ alertFilter \in [min_priority : AlertPriority, filter_noise : BOOLEAN,
                        catalyst_types : CatalystTypeChoices]
    /\ processors = <<"DedupProcessor", "FilterProcessor">>
    /\ NoCalls
    /\ LateInit
    /\ ServiceInit
    /\ EngineInit
    /\ dropped = [pc |-> "watching"]
    /\ tv = NoTv
    /\ sock = NoSock
    /\ tries = NoTries
    /\ scan = NoScan

\* a TradingViewCollector under either threshold and either AlertType
InitTv ==
    /\ CacheInit
    /\ DedupInit
    /\ notify_min_priority = "medium"
    /\ alertFilter = [min_priority |-> LOW, filter_noise |-> TRUE, catalyst_types |-> <<>>]
    /\ processors = <<"DedupProcessor", "FilterProcessor">>
    /\ NoCalls
    /\ LateInit
    /\ ServiceInit
    /\ EngineInit
    /\ dropped = NoDrop
    /\ tv \in {NewTv(threshold, stock_movement) :
                   threshold \in Thresholds, stock_movement \in BOOLEAN}
    /\ sock = NoSock
    /\ tries = NoTries
    /\ scan = NoScan

\* a started TradingViewCollector with its _run_loop task
InitSock ==
    /\ CacheInit
    /\ DedupInit
    /\ notify_min_priority = "medium"
    /\ alertFilter = [min_priority |-> LOW, filter_noise |-> TRUE, catalyst_types |-> <<>>]
    /\ processors = <<"DedupProcessor", "FilterProcessor">>
    /\ NoCalls
    /\ LateInit
    /\ ServiceInit
    /\ EngineInit
    /\ dropped = NoDrop
    /\ tv = NoTv
    /\ sock = NewSock
    /\ tries = NoTries
    /\ scan = NoScan

\* an FDACollector whose collect() has been called and consumed to its end
InitScan ==
    /\ CacheInit
    /\ DedupInit
    /\ notify_min_priority = "medium"
    /\ alertFilter = [min_priority |-> LOW, filter_noise |-> TRUE, catalyst_types |-> <<>>]
    /\ processors = <<"DedupProcessor", "FilterProcessor">>
    /\ NoCalls
    /\ LateInit
    /\ ServiceInit
    /\ EngineInit
    /\ dropped = NoDrop
    /\ tv = NoTv
    /\ sock = NoSock
    /\ tries = NoTries
    /\ scan = NewScan

\* a ProcessorPipeline built with any list of the two processors
InitPipeline ==
    /\ CacheInit
    /\ FinalInit
    /\ DedupInit
    /\ notify_min_priority \in MinSettings
    /\ alertFilter = [min_priority |-> LOW, filter_noise |-> TRUE, catalyst_types |-> <<>>]
    /\ processors \in {<<>>, <<"DedupProcessor">>, <<"FilterProcessor">>,
                       <<"DedupProcessor", "FilterProcessor">>,
                       <<"FilterProcessor", "DedupProcessor">>}
    /\ NoCalls
    /\ LateInit
    /\ ServiceInit
    /\ EngineInit

(***************************************************************************)
(* Calls on the two LRUCache objects.                                      *)
(***************************************************************************)
\* cache.add(key) on a duetto/utils/cache.py LRUCache
CacheAdd(key) ==
    /\ Len(cacheLog) + Len(lruLog) < MaxAdds
    /\ LET r == LRUCache_add(cache, Capacity, key)
       IN  /\ cache' = r.cache
           /\ cacheLog' = Append(cacheLog,
                  [key |-> key, ret |-> r.ret,
                   before |-> cache, after |-> r.cache])
    /\ UNCHANGED <<lruSet, lruQueue, lruLog, finalVars, dedupVars, configVars, lateVars, serviceVars, filterVars, hubVars, pipeVars, collectorVars, driverVars>>

\* cache.add(item) on a duetto/utils.py LRUCache
UtilsAdd(item) ==
    /\ Len(cacheLog) + Len(lruLog) < MaxAdds
    /\ LET r == Utils_LRUCache_add(lruSet, lruQueue, Capacity, item)
       IN  /\ lruSet' = r.set
           /\ lruQueue' = r.queue
           /\ lruLog' = Append(lruLog,
                  [key |-> item, ret |-> r.ret,
                   before |-> lruSet, after |-> r.set])
    /\ UNCHANGED <<cache, cacheLog, finalVars, dedupVars, configVars, lateVars, serviceVars, filterVars, hubVars, pipeVars, collectorVars, driverVars>>

CacheNext ==
    \/ \E key \in Keys : CacheAdd(key)
    \/ \E item \in Keys : UtilsAdd(item)

SpecCache == Init /\ [][CacheNext]_vars

(***************************************************************************)
(* Calls on a DedupProcessor, as tests/test_processors.py makes them.      *)
(***************************************************************************)
\* the alerts offered to the processors
PipelineAlerts == [id : Ids, priority : AlertPriority]

\* await processor.process(alert)
DedupProcess(alert) ==
    /\ Len(dedupLog) < MaxProcess
    /\ \E r \in DedupProcessor_process(seen, DedupCapacity, alert) :
          /\ seen' = r.seen
          /\ dedupLog' = Append(dedupLog, [id |-> alert.id, passed |-> r.out # None])
    /\ UNCHANGED <<cacheVars, finalVars, configVars, lateVars, serviceVars, filterVars, hubVars, pipeVars, collectorVars, driverVars>>

DedupNext == \E alert \in PipelineAlerts : DedupProcess(alert)

SpecDedup == Init /\ [][DedupNext]_vars

(***************************************************************************)
(* Direct calls of the filter functions: one call on the objects as built. *)
(***************************************************************************)
\* the alerts offered to the AlertFilter, as a collector builds them
FilterAlerts ==
    [priority : AlertPriority, matches : SUBSET Range(CATALYST_PATTERNS),
     noise : BOOLEAN, classified : {FALSE}, catalysts : {<<>>}]

\* await FilterProcessor().process(alert)
FilterProcess(alert) ==
    /\ call.fn = "none"
    /\ call' = [fn |-> "FilterProcessor.process", alert |-> alert,
                out |-> FilterProcessor_process(notify_min_priority, alert)]
    /\ UNCHANGED <<cacheVars, finalVars, dedupVars, configVars, lateVars, serviceVars, pipeVars, collectorVars, driverVars, hubVars>>

\* filter.should_pass(alert)
ShouldPass(alert) ==
    /\ call.fn = "none"
    /\ call' = [fn |-> "AlertFilter.should_pass", alert |-> alert,
                ret |-> should_pass(alertFilter, alert)]
    /\ UNCHANGED <<cacheVars, finalVars, dedupVars, configVars, lateVars, serviceVars, pipeVars, collectorVars, driverVars, hubVars>>

\* filter.enhance_alert(alert)
EnhanceAlert(alert) ==
    /\ call.fn = "none"
    /\ call' = [fn |-> "AlertFilter.enhance_alert", alert |-> alert,
                out |-> enhance_alert(alert)]
    /\ UNCHANGED <<cacheVars, finalVars, dedupVars, configVars, lateVars, serviceVars, pipeVars, collectorVars, driverVars, hubVars>>

FilterNext ==
    \/ \E alert \in FilterAlerts : FilterProcess(alert)
    \/ \E alert \in FilterAlerts : ShouldPass(alert)
    \/ \E alert \in FilterAlerts : EnhanceAlert(alert)

SpecFilter == InitFilter /\ [][FilterNext]_vars

(***************************************************************************)
(* Direct calls of ProcessorPipeline.run.                                  *)
(***************************************************************************)
\* await pipeline.run(alert)
PipelineRun(alert) ==
    /\ \E r \in ProcessorPipeline_run(processors, alert, seen, notify_min_priority) :
          /\ seen' = r.seen
          /\ run' = [alert |-> alert, calls |-> r.calls, out |-> r.out]
    /\ UNCHANGED <<cacheVars, finalVars, dedupLog, configVars, lateVars, serviceVars, filterVars, hubVars, handoff, collectorVars, driverVars>>

PipelineNext == \E alert \in PipelineAlerts : PipelineRun(alert)

SpecPipeline == InitPipeline /\ [][PipelineNext]_vars

(***************************************************************************)
(* The processing stage of the two engines, up to the broadcast.  No       *)
(* client is connected and no notifier is configured (the defaults).       *)
(***************************************************************************)
\* AlertEngine._process_alert(alert): classification, filter, broadcast
ProcessAlert(alert) ==
        /\ handoff' = process_alert(alertFilter, alert, handoff)
        /\ UNCHANGED <<cacheVars, finalVars, dedupVars, configVars, lateVars, serviceVars, filterVars, hubVars, run, collectorVars, driverVars>>

\* DuettoEngine._process_and_notify(alert): pipeline, broadcast
ProcessAndNotify(alert) ==
    /\ \E r \in ProcessorPipeline_run(processors, alert, seen, notify_min_priority) :
          /\ seen' = r.seen
          /\ handoff' = IF r.out # None
                        THEN [engine |-> "DuettoEngine", collected |-> alert, alert |-> r.out]
                        ELSE handoff
    /\ UNCHANGED <<cacheVars, finalVars, dedupLog, configVars, lateVars, serviceVars, filterVars, hubVars, run, collectorVars, driverVars>>

ProcessingNext ==
    \/ \E alert \in FilterAlerts : ProcessAlert(alert)
    \/ \E alert \in PipelineAlerts : ProcessAndNotify(alert)

SpecProcessing == Init /\ [][ProcessingNext]_vars

(***************************************************************************)
(* One _process_alert call of an AlertEngine whose filter was built with   *)
(* any arguments, the alert object watched up to the early return.         *)
(***************************************************************************)
\* AlertEngine._process_alert(alert): classification, filter, broadcast; the
\* object is recorded if should_pass refuses it
ProcessWatched(alert) ==
    /\ dropped.pc = "watching"
    /\ handoff.engine = "none"
    /\ handoff' = process_alert(alertFilter, alert, handoff)
    /\ dropped' = process_alert_drop(alertFilter, alert, dropped)
    /\ UNCHANGED <<tv, sock, tries, scan>>
    /\ UNCHANGED <<cacheVars, dedupVars, configVars, lateVars, serviceVars, filterVars,
                   hubVars, run, collectorVars, driverVars>>

DropNext == \E alert \in FilterAlerts : ProcessWatched(alert)

SpecDrop == InitDrop /\ [][DropNext]_vars

(***************************************************************************)
(* The collect() generators.  They run while their consumer waits for the  *)
(* next alert and stand still, at the yield, while it handles one.         *)
(***************************************************************************)
\* collector.collect() up to its first fetch, start() included if there is no session
collect_call ==
    /\ gen.pc \in {"off", "done"}
    /\ colSession' = "open"
    /\ colRunning' = (IF colSession = "none" THEN TRUE ELSE colRunning)
    /\ gen' = [pc |-> "fetch", pos |-> 1, left |-> 0, count |-> 0, alert |-> None,
               skipped |-> {}]
    /\ UNCHANGED <<colKind, colSeen, tracked, hist>>

\* SECEdgarCollector._fetch_feed: the status is not 200, or the request raises
FetchFeedFails ==
    /\ colKind = "SECEdgarCollector"
    /\ gen.pc = "fetch"
    /\ gen' = fetch_failed(colKind, gen)
    /\ UNCHANGED <<colKind, colSession, colRunning, colSeen, tracked, hist>>
    /\ UNCHANGED <<cacheVars, finalVars, dedupVars, configVars, lateVars, serviceVars, filterVars, hubVars, pipeVars, driverVars>>

\* SECEdgarCollector._fetch_feed: a page of n entries arrives
FetchFeed(n) ==
    /\ colKind = "SECEdgarCollector"
    /\ gen.pc = "fetch"
    /\ gen' = Advance(colKind, [gen EXCEPT !.left = n])
    /\ UNCHANGED <<colKind, colSession, colRunning, colSeen, tracked, hist>>
    /\ UNCHANGED <<cacheVars, finalVars, dedupVars, configVars, lateVars, serviceVars, filterVars, hubVars, pipeVars, driverVars>>

\* SECEdgarCollector._fetch_feed: one entry of the page; _parse_entry returns
\* None if it raises inside
FeedEntry(alert_id, text, parsed) ==
    /\ colKind = "SECEdgarCollector"
    /\ gen.pc = "entries"
    /\ LET r == fetch_entry(colSeen, alert_id, parsed)
           emitted == r.emitted
           g == [gen EXCEPT !.left = gen.left - 1,
                            !.skipped = IF parsed THEN @ ELSE @ \cup {"entry"}]
       IN  /\ colSeen' = r.cache
           /\ gen' = IF emitted
                     THEN [g EXCEPT !.pc = "yielded", !.alert = parse_entry(alert_id, text)]
                     ELSE Advance(colKind, g)
           /\ hist' = Shown(hist, alert_id, emitted)
           /\ tries' = Tried(tries, colSeen, alert_id, parsed, r)
    /\ UNCHANGED <<colKind, colSession, colRunning, tracked>>
    /\ UNCHANGED <<dropped, tv, sock, scan>>
    /\ UNCHANGED <<cacheVars, dedupVars, configVars, lateVars, serviceVars, filterVars, hubVars, pipeVars, driverVars>>

\* FDACollector._fetch_approvals: the status is not 200, there is no table, or
\* the request raises
FetchApprovalsFails ==
    /\ colKind = "FDACollector"
    /\ gen.pc = "fetch"
    /\ gen' = fetch_failed(colKind, gen)
    /\ UNCHANGED <<colKind, colSession, colRunning, colSeen, tracked, hist>>
    /\ UNCHANGED <<cacheVars, finalVars, dedupVars, configVars, lateVars, serviceVars, filterVars, hubVars, pipeVars, driverVars>>

\* FDACollector._fetch_approvals: a table of n rows arrives
FetchApprovals(n) ==
    /\ colKind = "FDACollector"
    /\ gen.pc = "fetch"
    /\ gen' = Advance(colKind, [gen EXCEPT !.left = Min(n, FDA_ROW_LIMIT), !.count = 0])
    /\ UNCHANGED <<colKind, colSession, colRunning, colSeen, tracked, hist>>
    /\ UNCHANGED <<cacheVars, finalVars, dedupVars, configVars, lateVars, serviceVars, filterVars, hubVars, pipeVars, driverVars>>

\* FDACollector._fetch_approvals: one row of the table; it is not parsed if it
\* has fewer than 4 cells or _parse_approval_row raises
ApprovalRow(alert_id, parsed) ==
    /\ colKind = "FDACollector"
    /\ gen.pc = "entries"
    /\ LET r == IF parsed
                THEN LRUCache_add(colSeen, SeenCapacity, alert_id)
                ELSE [cache |-> colSeen, ret |-> FALSE]
           emitted == parsed /\ r.ret
           g == [gen EXCEPT !.left = gen.left - 1,
                            !.skipped = IF parsed THEN @ ELSE @ \cup {"entry"}]
       IN  /\ colSeen' = r.cache
           /\ gen' = IF emitted
                     THEN [g EXCEPT !.pc = "yielded", !.alert = parse_approval_row(alert_id),
                                    !.count = g.count + 1]
                     ELSE Advance(colKind, g)
           /\ hist' = IF parsed THEN Shown(hist, alert_id, emitted) ELSE hist
    /\ UNCHANGED <<colKind, colSession, colRunning, tracked>>
    /\ UNCHANGED <<cacheVars, finalVars, dedupVars, configVars, lateVars, serviceVars, filterVars, hubVars, pipeVars, driverVars>>

CollectorNext ==
    \/ FetchFeedFails
    \/ \E n \in 0..MaxPage : FetchFeed(n)
    \/ \E alert_id \in SourceIds, text \in EntryTexts, parsed \in BOOLEAN :
           FeedEntry(alert_id, text, parsed)
    \/ FetchApprovalsFails
    \/ \E n \in 0..MaxPage : FetchApprovals(n)
    \/ \E alert_id \in SourceIds, parsed \in BOOLEAN : ApprovalRow(alert_id, parsed)

(***************************************************************************)
(* A collector on its own: "async for alert in collector.collect()" with a *)
(* body that only takes the alert, cycle after cycle.                      *)
(***************************************************************************)
\* the call of collect()
Collect ==
    /\ engineKind = "none"
    /\ collect_call
    /\ tries' = NextCycle(tries)
    /\ UNCHANGED <<dropped, tv, sock, scan>>
    /\ UNCHANGED <<cacheVars, dedupVars, configVars, lateVars, serviceVars, filterVars, hubVars, pipeVars, driverVars>>

\* the end of the loop body: the generator goes on
TakeAlert ==
    /\ engineKind = "none"
    /\ gen.pc = "yielded"
    /\ gen' = Advance(colKind, gen)
    /\ UNCHANGED <<colKind, colSession, colRunning, colSeen, tracked, hist>>
    /\ UNCHANGED <<cacheVars, finalVars, dedupVars, configVars, lateVars, serviceVars, filterVars, hubVars, pipeVars, driverVars>>

CollectNext == Collect \/ TakeAlert \/ CollectorNext

SpecCollect == InitCollect /\ [][CollectNext]_vars

\* a SECEdgarCollector on its own, cycle after cycle, the parse attempts for
\* the tracked id recorded
ParseNext ==
    \/ Collect
    \/ TakeAlert
    \/ FetchFeedFails
    \/ \E n \in 0..MaxPage : FetchFeed(n)
    \/ \E alert_id \in SourceIds, text \in EntryTexts, parsed \in BOOLEAN :
           FeedEntry(alert_id, text, parsed)

SpecParse == InitParse /\ [][ParseNext]_vars

(***************************************************************************)
(* The drivers: AlertEngine._run_sec_loop and _run_fda_loop with           *)
(* _collect_sec and _collect_fda, and DuettoEngine._run_collector.  A      *)
(* processing step that raises does so before it changes anything.         *)
(***************************************************************************)
\* AlertEngine.run up to the loops: start()
EngineRun ==
    /\ engineKind = "AlertEngine"
    /\ drv = "init"
    /\ engineRunning' = TRUE
    /\ colSession' = "open"
    /\ colRunning' = TRUE
    /\ drv' = "loop"
    /\ UNCHANGED <<colKind, colSeen, gen, tracked, hist, engineKind, outcome>>
    /\ UNCHANGED <<cacheVars, finalVars, dedupVars, configVars, lateVars, serviceVars, filterVars, hubVars, pipeVars>>

\* one iteration of the while loop: the call of _collect_sec or _collect_fda
LoopIteration ==
    /\ engineKind = "AlertEngine"
    /\ drv = "loop"
    /\ engineRunning
    /\ collect_call
    /\ drv' = "collecting"
    /\ UNCHANGED <<engineKind, engineRunning, outcome>>
    /\ UNCHANGED <<cacheVars, finalVars, dedupVars, configVars, lateVars, serviceVars, filterVars, hubVars, pipeVars>>

\* the body of the async for of _collect_sec or _collect_fda on the yielded
\* alert.  An exception leaves the async for, is logged by the except of
\* _collect_*, and the loop sleeps until its next iteration.
ProcessYielded(raises) ==
    /\ engineKind = "AlertEngine"
    /\ drv = "collecting"
    /\ gen.pc = "yielded"
    /\ IF raises
       THEN /\ gen' = GenOff
            /\ drv' = "loop"
            /\ outcome' = "raised"
            /\ UNCHANGED handoff
       ELSE /\ handoff' = process_alert(alertFilter, gen.alert, handoff)
            /\ gen' = Advance(colKind, gen)
            /\ outcome' = "ok"
            /\ UNCHANGED drv
    /\ UNCHANGED <<colKind, colSession, colRunning, colSeen, tracked, hist>>
    /\ UNCHANGED <<engineKind, engineRunning>>
    /\ UNCHANGED <<cacheVars, finalVars, dedupVars, configVars, lateVars, serviceVars, filterVars, hubVars, run>>

\* the generator is exhausted: _collect_* returns and the loop sleeps
CycleEnd ==
    /\ engineKind = "AlertEngine"
    /\ drv = "collecting"
    /\ gen.pc = "done"
    /\ gen' = GenOff
    /\ drv' = "loop"
    /\ UNCHANGED <<colKind, colSession, colRunning, colSeen, tracked, hist>>
    /\ UNCHANGED <<engineKind, engineRunning, outcome>>
    /\ UNCHANGED <<cacheVars, finalVars, dedupVars, configVars, lateVars, serviceVars, filterVars, hubVars, pipeVars>>

\* DuettoEngine.start: running, and the task of _run_collector up to the
\* first fetch of collect()
DuettoStart ==
    /\ engineKind = "DuettoEngine"
    /\ drv = "init"
    /\ engineRunning' = TRUE
    /\ collect_call
    /\ drv' = "collecting"
    /\ UNCHANGED <<engineKind, outcome>>
    /\ UNCHANGED <<cacheVars, finalVars, dedupVars, configVars, lateVars, serviceVars, filterVars, hubVars, pipeVars>>

\* the body of the async for of _run_collector on the yielded alert.  An
\* exception leaves the async for and is logged by the except: the task ends.
DuettoProcessYielded(raises) ==
    /\ engineKind = "DuettoEngine"
    /\ drv = "collecting"
    /\ gen.pc = "yielded"
    /\ IF ~engineRunning
       THEN /\ gen' = GenOff
            /\ drv' = "done"
            /\ UNCHANGED <<seen, handoff, outcome>>
       ELSE IF raises
       THEN /\ gen' = GenOff
            /\ drv' = "done"
            /\ outcome' = "raised"
            /\ UNCHANGED <<seen, handoff>>
       ELSE /\ \E r \in ProcessorPipeline_run(processors, gen.alert, seen,
                                               notify_min_priority) :
                  /\ seen' = r.seen
                  /\ handoff' = IF r.out # None
                                THEN [engine |-> "DuettoEngine", collected |-> gen.alert,
                                      alert |-> r.out]
                                ELSE handoff
            /\ gen' = Advance(colKind, gen)
            /\ outcome' = "ok"
            /\ UNCHANGED drv
    /\ UNCHANGED <<colKind, colSession, colRunning, colSeen, tracked, hist>>
    /\ UNCHANGED <<engineKind, engineRunning>>
    /\ UNCHANGED <<cacheVars, finalVars, dedupLog, configVars, lateVars, serviceVars, filterVars, hubVars, run>>

\* the generator is exhausted: _run_collector returns
DuettoCollectorEnd ==
    /\ engineKind = "DuettoEngine"
    /\ drv = "collecting"
    /\ gen.pc = "done"
    /\ gen' = GenOff
    /\ drv' = "done"
    /\ UNCHANGED <<colKind, colSession, colRunning, colSeen, tracked, hist>>
    /\ UNCHANGED <<engineKind, engineRunning, outcome>>
    /\ UNCHANGED <<cacheVars, finalVars, dedupVars, configVars, lateVars, serviceVars, filterVars, hubVars, pipeVars>>

DriverNext ==
    \/ EngineRun
    \/ LoopIteration
    \/ \E raises \in BOOLEAN : ProcessYielded(raises)
    \/ CycleEnd
    \/ DuettoStart
    \/ \E raises \in BOOLEAN : DuettoProcessYielded(raises)
    \/ DuettoCollectorEnd
    \/ CollectorNext

SpecDriver == InitDriver /\ [][DriverNext]_vars

(***************************************************************************)
(* The WebSocket endpoints and broadcast.  A task that finds the lock held *)
(* waits; connect and disconnect hold the lock over no await.              *)
(***************************************************************************)
\* websocket_endpoint up to its receive loop: ws_manager.connect(websocket).
\* In services/ the append waits if the lock cannot be taken at once.
Connect(ws) ==
    /\ endpoint[ws] = "new"
    /\ IF hubKind = "server" \/ CanAcquire(lock, waiters)
       THEN /\ connections' = Append(connections, ws)
            /\ endpoint' = [endpoint EXCEPT ![ws] = "receiving"]
            /\ UNCHANGED waiters
       ELSE /\ endpoint' = [endpoint EXCEPT ![ws] = "accepted"]
            /\ waiters' = Append(waiters, [endpoint |-> ws])
            /\ UNCHANGED connections
    /\ UNCHANGED <<hubKind, callers, lock, bc, hubError>>
    /\ UNCHANGED <<cacheVars, finalVars, dedupVars, configVars, lateVars, serviceVars, filterVars, pipeVars, collectorVars,
                   driverVars>>

\* services/ connect: the lock is acquired after a wait
ConnectAcquires(ws) ==
    /\ hubKind = "services"
    /\ endpoint[ws] = "accepted"
    /\ LockFree(lock)
    /\ waiters # <<>> /\ Head(waiters) = [endpoint |-> ws]
    /\ waiters' = Tail(waiters)
    /\ connections' = Append(connections, ws)
    /\ endpoint' = [endpoint EXCEPT ![ws] = "receiving"]
    /\ UNCHANGED <<hubKind, callers, lock, bc, hubError>>
    /\ UNCHANGED <<cacheVars, finalVars, dedupVars, configVars, lateVars, serviceVars, filterVars, pipeVars, collectorVars,
                   driverVars>>

\* the client closes: receive_text raises WebSocketDisconnect and the endpoint
\* calls disconnect.  In services/ the removal waits if the lock cannot be
\* taken at once.  A client whose send does not complete stays connected.
ClientCloses(ws) ==
    /\ endpoint[ws] = "receiving"
    /\ \A d \in Drivers : ~(bc[d].pc = "stalled" /\ bc[d].conn = ws)
    /\ IF hubKind = "server" \/ CanAcquire(lock, waiters)
       THEN LET r == disconnect(connections, ws)
            IN  /\ connections' = r.connections
                /\ hubError' = (hubError \/ r.raised)
                /\ endpoint' = [endpoint EXCEPT ![ws] = "gone"]
                /\ UNCHANGED waiters
       ELSE /\ endpoint' = [endpoint EXCEPT ![ws] = "closed"]
            /\ waiters' = Append(waiters, [endpoint |-> ws])
            /\ UNCHANGED <<connections, hubError>>
    /\ UNCHANGED <<hubKind, callers, lock, bc>>
    /\ UNCHANGED <<cacheVars, finalVars, dedupVars, configVars, lateVars, serviceVars, filterVars, pipeVars, collectorVars,
                   driverVars>>

\* services/ disconnect: the lock is acquired after a wait
DisconnectAcquires(ws) ==
    /\ hubKind = "services"
    /\ endpoint[ws] = "closed"
    /\ LockFree(lock)
    /\ waiters # <<>> /\ Head(waiters) = [endpoint |-> ws]
    /\ waiters' = Tail(waiters)
    /\ LET r == disconnect(connections, ws)
       IN  /\ connections' = r.connections
           /\ hubError' = (hubError \/ r.raised)
    /\ endpoint' = [endpoint EXCEPT ![ws] = "gone"]
    /\ UNCHANGED <<hubKind, callers, lock, bc>>
    /\ UNCHANGED <<cacheVars, finalVars, dedupVars, configVars, lateVars, serviceVars, filterVars, pipeVars, collectorVars,
                   driverVars>>

\* server.py websocket_endpoint: receive_text raises another exception and the
\* endpoint calls disconnect; the connection is not closed
EndpointError(ws) ==
    /\ hubKind = "server"
    /\ endpoint[ws] = "receiving"
    /\ LET r == disconnect(connections, ws)
       IN  /\ connections' = r.connections
           /\ hubError' = (hubError \/ r.raised)
    /\ endpoint' = [endpoint EXCEPT ![ws] = "errored"]
    /\ UNCHANGED <<hubKind, callers, lock, waiters, bc>>
    /\ UNCHANGED <<cacheVars, finalVars, dedupVars, configVars, lateVars, serviceVars, filterVars, pipeVars, collectorVars,
                   driverVars>>

\* broadcast(alert) by driver d up to its first await.  services/: return if
\* there is no connection, else take the lock, or wait for it, and start the
\* loop over _connections.  server.py: start the loop over a copy of
\* active_connections.
Broadcast(d) ==
    /\ d \in callers
    /\ bc[d].pc = "idle"
    /\ IF hubKind = "services"
       THEN IF connections = <<>>
            THEN /\ bc' = Settle([bc EXCEPT ![d] = [NewFrame(bc) EXCEPT
                                                                !.done = TRUE]])
                 /\ UNCHANGED <<connections, lock, waiters, hubError>>
            ELSE IF CanAcquire(lock, waiters)
            THEN LET r == services_loop(d, connections, bc)
                 IN  /\ bc' = Settle([bc EXCEPT ![d] = r.frame])
                     /\ lock' = r.lock
                     /\ UNCHANGED <<connections, waiters, hubError>>
            ELSE /\ bc' = Settle([bc EXCEPT ![d] = [NewFrame(bc) EXCEPT !.pc = "waiting"]])
                 /\ waiters' = Append(waiters, [driver |-> d])
                 /\ UNCHANGED <<connections, lock, hubError>>
       ELSE LET r == server_loop(connections, 1, connections, endpoint)
                new == [NewFrame(bc) EXCEPT !.snap = connections, !.pruned = r.pruned]
            IN  /\ connections' = r.connections
                /\ hubError' = (hubError \/ r.raised)
                /\ bc' = Settle([bc EXCEPT ![d] =
                             IF r.i > Len(connections)
                             THEN [new EXCEPT !.done = TRUE]
                             ELSE [new EXCEPT !.pc = "sending", !.i = r.i,
                                              !.conn = connections[r.i],
                                              !.sent[connections[r.i]] = 1]])
                /\ UNCHANGED <<lock, waiters>>
    /\ UNCHANGED <<hubKind, callers, endpoint>>
    /\ UNCHANGED <<cacheVars, finalVars, dedupVars, configVars, lateVars, serviceVars, filterVars, pipeVars, collectorVars,
                   driverVars>>

\* services/ broadcast: the lock is acquired after a wait and the loop starts
BroadcastAcquires(d) ==
    /\ hubKind = "services"
    /\ bc[d].pc = "waiting"
    /\ LockFree(lock)
    /\ waiters # <<>> /\ Head(waiters) = [driver |-> d]
    /\ waiters' = Tail(waiters)
    /\ LET r == services_loop(d, connections, bc)
       IN  /\ bc' = Settle([bc EXCEPT ![d] = [r.frame EXCEPT !.before = bc[d].before,
                                                             !.earlier = bc[d].earlier]])
           /\ lock' = r.lock
    /\ UNCHANGED <<hubKind, callers, connections, endpoint, hubError>>
    /\ UNCHANGED <<cacheVars, finalVars, dedupVars, configVars, lateVars, serviceVars, filterVars, pipeVars, collectorVars,
                   driverVars>>

\* the send awaited by driver d returns, or raises, and its broadcast runs to
\* its next await or its end.  services/: the loop goes on over _connections;
\* after it the dead connections are removed and the lock is released.
\* server.py: a failed connection is detached at once and the loop goes on
\* over the copy.
SendReturns(d, ok) ==
    /\ bc[d].pc = "sending"
    /\ LET f == bc[d]
           failed == IF ok THEN f.failed ELSE f.failed \cup {f.conn}
       IN  IF hubKind = "services"
           THEN LET dead == IF ok THEN f.dead ELSE Append(f.dead, f.conn)
                    i == f.i + 1
                IN  IF i <= Len(connections)
                    THEN /\ bc' = Settle([bc EXCEPT ![d] =
                                      [f EXCEPT !.i = i, !.conn = connections[i],
                                                !.dead = dead, !.failed = failed,
                                                !.sent[connections[i]] = Min(@ + 1, 2)]])
                         /\ UNCHANGED <<connections, lock, hubError>>
                    ELSE LET r == RemoveAll(connections, dead)
                         IN  /\ connections' = r.connections
                             /\ hubError' = (hubError \/ r.raised)
                             /\ lock' = "free"
                             /\ bc' = Settle([bc EXCEPT ![d] =
                                          [f EXCEPT !.pc = "idle", !.i = 0, !.conn = 0,
                                                    !.dead = <<>>, !.failed = failed,
                                                    !.done = TRUE]])
           ELSE LET d1 == IF ok THEN [connections |-> connections, raised |-> FALSE]
                          ELSE disconnect(connections, f.conn)
                    r == server_loop(f.snap, f.i + 1, d1.connections, endpoint)
                IN  /\ connections' = r.connections
                    /\ hubError' = (hubError \/ d1.raised \/ r.raised)
                    /\ bc' = Settle([bc EXCEPT ![d] =
                                 IF r.i > Len(f.snap)
                                 THEN [f EXCEPT !.pc = "idle", !.i = 0, !.conn = 0,
                                                !.failed = failed,
                                                !.pruned = @ \cup r.pruned,
                                                !.done = TRUE]
                                 ELSE [f EXCEPT !.i = r.i, !.conn = f.snap[r.i],
                                                !.failed = failed,
                                                !.pruned = @ \cup r.pruned,
                                                !.sent[f.snap[r.i]] = Min(@ + 1, 2)]])
                    /\ UNCHANGED lock
    /\ UNCHANGED <<hubKind, callers, waiters, endpoint>>
    /\ UNCHANGED <<cacheVars, finalVars, dedupVars, configVars, lateVars, serviceVars, filterVars, pipeVars, collectorVars,
                   driverVars>>

HubNext ==
    \/ \E ws \in Clients : Connect(ws)
    \/ \E ws \in Clients : ConnectAcquires(ws)
    \/ \E ws \in Clients : ClientCloses(ws)
    \/ \E ws \in Clients : DisconnectAcquires(ws)
    \/ \E ws \in Clients : EndpointError(ws)
    \/ \E d \in Drivers : Broadcast(d)
    \/ \E d \in Drivers, ok \in BOOLEAN : SendReturns(d, ok)

SpecHub == InitHub /\ [][HubNext]_vars

\* both drivers of AlertEngine.run call broadcast
ConcurrentNext ==
    \/ \E ws \in ConcurrentClients : Connect(ws)
    \/ \E ws \in ConcurrentClients : ConnectAcquires(ws)
    \/ \E ws \in ConcurrentClients : ClientCloses(ws)
    \/ \E ws \in ConcurrentClients : DisconnectAcquires(ws)
    \/ \E ws \in ConcurrentClients : EndpointError(ws)
    \/ \E d \in Drivers : Broadcast(d)
    \/ \E d \in Drivers : BroadcastAcquires(d)
    \/ \E d \in Drivers, ok \in BOOLEAN : SendReturns(d, ok)

SpecConcurrent == InitConcurrent /\ [][ConcurrentNext]_vars

\* the send awaited by driver d never completes: the peer does not read and
\* the transport's write buffer stays full.  send_text and send_json are
\* awaited without a timeout, so broadcast has no continuation.
SendStalls(d) ==
    /\ bc[d].pc = "sending"
    /\ bc' = [bc EXCEPT ![d].pc = "stalled"]
    /\ UNCHANGED <<hubKind, callers, connections, lock, waiters, endpoint, hubError>>
    /\ UNCHANGED <<cacheVars, finalVars, dedupVars, configVars, lateVars, serviceVars, filterVars, pipeVars, collectorVars,
                   driverVars>>

StallNext ==
    \/ \E ws \in ConcurrentClients : Connect(ws)
    \/ \E ws \in ConcurrentClients : ConnectAcquires(ws)
    \/ \E ws \in ConcurrentClients : ClientCloses(ws)
    \/ \E ws \in ConcurrentClients : DisconnectAcquires(ws)
    \/ \E ws \in ConcurrentClients : EndpointError(ws)
    \/ \E d \in Drivers : Broadcast(d)
    \/ \E d \in Drivers, ok \in BOOLEAN : SendReturns(d, ok)
    \/ \E d \in Drivers : SendStalls(d)

\* the event loop runs every task that can run: a send that completes
\* resumes its broadcast, a task that waits for a free lock gets it
SpecStall ==
    /\ InitHub
    /\ [][StallNext]_vars
    /\ WF_vars(\E d \in Drivers, ok \in BOOLEAN : SendReturns(d, ok))
    /\ WF_vars(\E ws \in ConcurrentClients : ConnectAcquires(ws))
    /\ WF_vars(\E ws \in ConcurrentClients : DisconnectAcquires(ws))

\* an alert reaches the delivery.  AlertEngine._process_alert after its
\* broadcast: if there is a notifier and _should_notify, analyze if AI is
\* enabled, then _notifier.send; then the Feishu card.  MultiNotifier.send
\* called with no suggestion.  DuettoEngine._process_and_notify: the pipeline
\* (its FilterProcessor), then the loop over the notifiers.
Deliver(collected) ==
    /\ fan.pc = "ready"
    /\ LET alert == IF fan.engine = "AlertEngine" THEN enhance_alert(collected)
                    ELSE collected
           f == [fan EXCEPT !.alert = alert]
       IN  CASE fan.engine = "AlertEngine" ->
                    /\ should_pass(alertFilter, alert)
                    /\ fan' = IF f.notifiers # <<>> /\ should_notify(notify_min_priority, alert)
                              THEN IF f.enable_ai
                                   THEN [f EXCEPT !.pc = "analyze", !.calls = 1]
                                   ELSE MultiNotifier_send(f, 0)
                              ELSE [f EXCEPT !.pc = "returned", !.feishu = feishu_gate(alert)]
             [] fan.engine = "MultiNotifier" ->
                    fan' = MultiNotifier_send(f, 0)
             [] fan.engine = "DuettoEngine" ->
                    fan' = IF FilterProcessor_process(notify_min_priority, alert) = None
                           THEN [f EXCEPT !.pc = "returned"]
                           ELSE notifiers_loop(f, 1)
    /\ UNCHANGED <<ai, life>>
    /\ UNCHANGED <<cacheVars, finalVars, dedupVars, configVars, lateVars, filterVars, pipeVars, collectorVars,
                   driverVars, hubVars>>

\* the analyze awaited by _process_alert returns a text or null, or raises
\* (the exception is caught and the suggestion stays null), and
\* _notifier.send is called with the suggestion
EngineAnalyzeReturns(result) ==
    /\ fan.pc = "analyze"
    /\ fan' = MultiNotifier_send(fan, IF result = "text" THEN 1 ELSE 0)
    /\ UNCHANGED <<ai, life>>
    /\ UNCHANGED <<cacheVars, finalVars, dedupVars, configVars, lateVars, filterVars, pipeVars, collectorVars,
                   driverVars, hubVars>>

\* the analyze awaited by the send of notifier k returns a text or null, or
\* raises (send catches the exception and returns False)
NotifierAnalyzeReturns(k, result) ==
    /\ fan.pc = "gather"
    /\ k \in 1..Len(fan.send)
    /\ fan.send[k].pc = "analyze"
    /\ fan' = IF result = "raised"
              THEN after_send(fan, k, "false")
              ELSE [fan EXCEPT !.send[k].pc = "post",
                               !.send[k].suggestion = IF result = "text" THEN 1 + k ELSE 0]
    /\ UNCHANGED <<ai, life>>
    /\ UNCHANGED <<cacheVars, finalVars, dedupVars, configVars, lateVars, filterVars, pipeVars, collectorVars,
                   driverVars, hubVars>>

\* the delivery of notifier k returns true or false, or raises
NotifierCompletes(k, res) ==
    /\ fan.pc \in {"gather", "loop"}
    /\ k \in 1..Len(fan.send)
    /\ fan.send[k].pc = "post"
    /\ fan' = after_send(fan, k, send_result(fan.notifiers[k], res))
    /\ UNCHANGED <<ai, life>>
    /\ UNCHANGED <<cacheVars, finalVars, dedupVars, configVars, lateVars, filterVars, pipeVars, collectorVars,
                   driverVars, hubVars>>

NotifyNext ==
    \/ \E collected \in CollectedAlerts : Deliver(collected)
    \/ \E result \in {"text", "null", "raised"} : EngineAnalyzeReturns(result)
    \/ \E k \in 1..MaxNotifiers, result \in {"text", "null", "raised"} :
           NotifierAnalyzeReturns(k, result)
    \/ \E k \in 1..MaxNotifiers, res \in {"true", "false", "raised"} :
           NotifierCompletes(k, res)

SpecNotify == InitNotify /\ [][NotifyNext]_vars

\* analyze(alert) is called and runs to its end; http is what the API serves
Analyze(http) ==
    /\ ai.pc = "ready"
    /\ Len(ai.log) < MaxAnalyze
    /\ LET r == analyze(ai.provider, ai.api_key, http)
       IN  ai' = [ai EXCEPT !.session = IF ai.api_key THEN "open" ELSE @,
                            !.log = Append(@, [http |-> http, raised |-> r.raised,
                                               ret |-> r.ret, requests |-> r.requests])]
    /\ UNCHANGED <<fan, life>>
    /\ UNCHANGED <<cacheVars, finalVars, dedupVars, configVars, lateVars, filterVars, pipeVars, collectorVars,
                   driverVars, hubVars>>

AnalyzeNext == \E http \in HttpOutcomes : Analyze(http)

SpecAnalyze == InitAnalyze /\ [][AnalyzeNext]_vars

\* what stop() acts on
Resources(l) ==
    <<l.running, l.session, l.created, l.closed, l.ws, l.tasks, l.queued, l.col, l.pos>>

\* a call of start()
Start ==
    /\ life.pc = "ready"
    /\ life.calls < MaxLifeCalls
    /\ life' = [start(life) EXCEPT !.calls = @ + 1]
    /\ UNCHANGED <<fan, ai>>
    /\ UNCHANGED <<cacheVars, finalVars, dedupVars, configVars, lateVars, filterVars, pipeVars, collectorVars,
                   driverVars, hubVars>>

\* a call of stop()
Stop ==
    /\ life.pc = "ready"
    /\ life.calls < MaxLifeCalls
    /\ life' = [stop(life) EXCEPT
                   !.calls = @ + 1,
                   !.restop = @ \/ (life.stopped # "no"
                                       /\ Resources(stop(life)) # Resources(life))]
    /\ UNCHANGED <<fan, ai>>
    /\ UNCHANGED <<cacheVars, finalVars, dedupVars, configVars, lateVars, filterVars, pipeVars, collectorVars,
                   driverVars, hubVars>>

\* a call of collect() up to its first await: start() if there is no session
\* (TradingViewCollector: if _running is clear), then the first fetch
\* (TradingViewCollector: the sleep, or the end if _running is clear)
LifeCollect ==
    /\ life.pc = "ready"
    /\ life.col \in {"off", "done"}
    /\ IF life.kind = "TradingViewCollector"
       THEN LET l == IF ~life.running THEN start(life) ELSE life
            IN  life' = [l EXCEPT !.col = "sleep", !.raised = FALSE]
       ELSE LET l == IF life.session = 0 THEN start(life) ELSE life
            IN  life' = fetch_next([l EXCEPT !.pos = 0, !.raised = FALSE])
    /\ UNCHANGED <<fan, ai>>
    /\ UNCHANGED <<cacheVars, finalVars, dedupVars, configVars, lateVars, filterVars, pipeVars, collectorVars,
                   driverVars, hubVars>>

\* the fetch awaited by collect() ends: the page yields an alert, or nothing,
\* or the request raises.  A request on a closed session raises.  The
\* request runs on the session collect() held when it issued the request.
LifeFetch(result) ==
    /\ life.pc = "ready"
    /\ life.col = "fetch"
    /\ life.fetching \in life.closed \cup {0} => result = "raised"
    /\ LET l == [life EXCEPT !.fetching = 0, !.pending = FALSE,
                              !.hit = @ \/ (life.pending /\ result # "raised"),
                              !.raised = @ \/ (result = "raised")]
       IN  life' = CASE result = "alert" -> [l EXCEPT !.col = "yielded"]
                     [] result = "nothing" -> after_fetch(l)
                     [] result = "raised" -> fetch_raised(l)
    /\ UNCHANGED <<fan, ai>>
    /\ UNCHANGED <<cacheVars, finalVars, dedupVars, configVars, lateVars, filterVars, pipeVars, collectorVars,
                   driverVars, hubVars>>

\* the consumer asks for the next alert: the generator goes on after its yield
LifeResume ==
    /\ life.pc = "ready"
    /\ life.col = "yielded"
    /\ life' = IF life.kind = "TradingViewCollector"
               THEN [life EXCEPT !.col = "sleep"]
               ELSE after_fetch(life)
    /\ UNCHANGED <<fan, ai>>
    /\ UNCHANGED <<cacheVars, finalVars, dedupVars, configVars, lateVars, filterVars, pipeVars, collectorVars,
                   driverVars, hubVars>>

\* the sleep of collect() ends.  TradingViewCollector: the generator ends if
\* _running is clear, yields if the queue holds an alert, sleeps again
\* otherwise.
LifeWake ==
    /\ life.pc = "ready"
    /\ life.col = "sleep"
    /\ life' = IF life.kind = "TradingViewCollector"
               THEN IF ~life.running THEN [life EXCEPT !.col = "done"]
                    ELSE IF life.queued
                    THEN [life EXCEPT !.col = "yielded", !.queued = FALSE]
                    ELSE life
               ELSE after_sleep(life)
    /\ life' # life
    /\ UNCHANGED <<fan, ai>>
    /\ UNCHANGED <<cacheVars, finalVars, dedupVars, configVars, lateVars, filterVars, pipeVars, collectorVars,
                   driverVars, hubVars>>

\* a _run_loop task starts, or wakes from its sleep
RunLoopPass(from, connected) ==
    /\ life.pc = "ready"
    /\ from \in {"new", "sleeping"}
    /\ life.tasks[from] > 0
    /\ life' = run_loop_pass(life, from, connected)
    /\ UNCHANGED <<fan, ai>>
    /\ UNCHANGED <<cacheVars, finalVars, dedupVars, configVars, lateVars, filterVars, pipeVars, collectorVars,
                   driverVars, hubVars>>

\* a _run_loop task that reads the socket gets a message and queues an alert
RunLoopMessage ==
    /\ life.pc = "ready"
    /\ life.tasks.reading > 0
    /\ life.ws = "open" /\ life.session \notin life.closed
    /\ life.running
    /\ ~life.queued
    /\ life' = [life EXCEPT !.queued = TRUE]
    /\ UNCHANGED <<fan, ai>>
    /\ UNCHANGED <<cacheVars, finalVars, dedupVars, configVars, lateVars, filterVars, pipeVars, collectorVars,
                   driverVars, hubVars>>

\* the socket a _run_loop task reads is closed, or fails: the task leaves its
\* async for and goes to the test of its while loop
RunLoopDisconnected(connected) ==
    /\ life.pc = "ready"
    /\ life.tasks.reading > 0
    /\ life' = run_loop_pass(life, "reading", connected)
    /\ UNCHANGED <<fan, ai>>
    /\ UNCHANGED <<cacheVars, finalVars, dedupVars, configVars, lateVars, filterVars, pipeVars, collectorVars,
                   driverVars, hubVars>>

LifeNext ==
    \/ Start
    \/ Stop
    \/ LifeCollect
    \/ \E result \in {"alert", "nothing", "raised"} : LifeFetch(result)
    \/ LifeResume
    \/ LifeWake
    \/ \E from \in {"new", "sleeping"}, connected \in BOOLEAN : RunLoopPass(from, connected)
    \/ RunLoopMessage
    \/ \E connected \in BOOLEAN : RunLoopDisconnected(connected)

SpecLife == InitLife /\ [][LifeNext]_vars

(***************************************************************************)
(* An engine with its drivers: AlertEngine.run with _run_sec_loop and      *)
(* _run_fda_loop, DuettoEngine.start with _run_collector, their stop(),    *)
(* and the shutdown of main.lifespan.                                      *)
(***************************************************************************)
\* the alerts the collector of a driver yields
DriverAlerts(d) ==
    IF d = "sec" THEN {parse_entry(1, text) : text \in AlertTexts} ELSE {parse_approval_row(1)}

\* AlertEngine.run up to gather: start(), then the loops; DuettoEngine.start
\* up to gather: one task per collector, each up to the first request of
\* collect(), which starts the collector
SupRun ==
    /\ sup.pc = "ready"
    /\ sup.task = "none"
    /\ LET s1 == IF sup.engine = "AlertEngine"
                 THEN AlertEngine_start(sup)
                 ELSE collectors_start([sup EXCEPT !.running = TRUE], {"sec"})
           first == IF sup.engine = "AlertEngine" THEN "check" ELSE "collecting"
       IN  sup' = [s1 EXCEPT !.task = "running",
                             !.drv = [d \in Drivers |->
                                         IF d \in EngineDrivers(sup)
                                         THEN [NoDriver EXCEPT !.pc = first]
                                         ELSE NoDriver]]
    /\ UNCHANGED <<recent, tm, built>>
    /\ UNCHANGED <<cacheVars, finalVars, dedupVars, configVars, serviceVars, filterVars, pipeVars,
                   collectorVars, driverVars, hubVars>>

\* the test of the while loop of _run_sec_loop or _run_fda_loop
DrvLoop(d) ==
    /\ sup.pc = "ready"
    /\ sup.drv[d].pc = "check"
    /\ sup' = IF sup.running
              THEN [sup EXCEPT !.drv[d].pc = "collecting"]
              ELSE [sup EXCEPT !.drv[d].pc = "done", !.drv[d].ended = "stopped"]
    /\ UNCHANGED <<recent, tm, built>>
    /\ UNCHANGED <<cacheVars, finalVars, dedupVars, configVars, serviceVars, filterVars, pipeVars,
                   collectorVars, driverVars, hubVars>>

\* the collector yields an alert to the driver.  AlertEngine._process_alert
\* enhances it and returns if the filter drops it, else awaits the broadcast.
\* DuettoEngine._run_collector breaks if running is clear, else runs the
\* pipeline, returns if that drops the alert, else awaits the broadcast.
DrvYield(d, alert, passes) ==
    /\ sup.pc = "ready"
    /\ sup.drv[d].pc = "collecting"
    /\ sup.cards[d].created + sup.cards[d].posting < MaxCards
    /\ IF sup.engine = "AlertEngine"
       THEN LET enhanced == enhance_alert(alert)
            IN  /\ passes = should_pass(alertFilter, enhanced)
                /\ passes
                /\ sup' = [sup EXCEPT !.drv[d].pc = "broadcast", !.drv[d].alert = enhanced]
       ELSE IF ~sup.running
       THEN sup' = [sup EXCEPT !.drv[d].pc = "done", !.drv[d].ended = "stopped"]
       ELSE /\ passes
            /\ sup' = [sup EXCEPT !.drv[d].pc = "broadcast", !.drv[d].alert = alert]
    /\ UNCHANGED <<recent, tm, built>>
    /\ UNCHANGED <<cacheVars, finalVars, dedupVars, configVars, serviceVars, filterVars, pipeVars,
                   collectorVars, driverVars, hubVars>>

\* ws_manager.broadcast returns
DrvBroadcastReturns(d) ==
    /\ sup.pc = "ready"
    /\ sup.drv[d].pc = "broadcast"
    /\ sup' = [after_broadcast(sup, d, notify_min_priority) EXCEPT
                  !.late = @ \/ sup.stopped,
                  !.survived = @ \/ \E e \in Drivers \ {d} : sup.drv[e].fails > 0]
    /\ UNCHANGED <<recent, tm, built>>
    /\ UNCHANGED <<cacheVars, finalVars, dedupVars, configVars, serviceVars, filterVars, pipeVars,
                   collectorVars, driverVars, hubVars>>

\* _ai_provider.analyze returns: the notifier is called
DrvAnalyzeReturns(d) ==
    /\ sup.pc = "ready"
    /\ sup.drv[d].pc = "analyze"
    /\ sup' = get_session([sup EXCEPT !.drv[d].pc = "send"], "notifier")
    /\ UNCHANGED <<recent, tm, built>>
    /\ UNCHANGED <<cacheVars, finalVars, dedupVars, configVars, serviceVars, filterVars, pipeVars,
                   collectorVars, driverVars, hubVars>>

\* the notifier's send returns
DrvSendReturns(d) ==
    /\ sup.pc = "ready"
    /\ sup.drv[d].pc = "send"
    /\ sup' = [process_end(sup, d) EXCEPT !.late = @ \/ sup.stopped]
    /\ UNCHANGED <<recent, tm, built>>
    /\ UNCHANGED <<cacheVars, finalVars, dedupVars, configVars, serviceVars, filterVars, pipeVars,
                   collectorVars, driverVars, hubVars>>

\* the generator of collect() is exhausted
DrvCycleEnd(d) ==
    /\ sup.pc = "ready"
    /\ sup.drv[d].pc = "collecting"
    /\ sup' = cycle_end(sup, d)
    /\ UNCHANGED <<recent, tm, built>>
    /\ UNCHANGED <<cacheVars, finalVars, dedupVars, configVars, serviceVars, filterVars, pipeVars,
                   collectorVars, driverVars, hubVars>>

\* collect() or the processing of an alert raises an exception
DrvFails(d) ==
    /\ sup.pc = "ready"
    /\ sup.drv[d].pc \in {"collecting", "broadcast"}
    /\ sup.drv[d].fails < MaxFails
    /\ sup' = driver_failed(sup, d)
    /\ UNCHANGED <<recent, tm, built>>
    /\ UNCHANGED <<cacheVars, finalVars, dedupVars, configVars, serviceVars, filterVars, pipeVars,
                   collectorVars, driverVars, hubVars>>

\* the sleep of the loop ends
DrvWakes(d) ==
    /\ sup.pc = "ready"
    /\ sup.drv[d].pc = "sleep"
    /\ sup' = [sup EXCEPT !.drv[d].pc = "check"]
    /\ UNCHANGED <<recent, tm, built>>
    /\ UNCHANGED <<cacheVars, finalVars, dedupVars, configVars, serviceVars, filterVars, pipeVars,
                   collectorVars, driverVars, hubVars>>

\* a task of FeishuService.send_alert runs up to its post: start() if there
\* is no session
CardRuns(d) ==
    /\ sup.pc = "ready"
    /\ sup.cards[d].created > 0
    /\ sup' = [sup EXCEPT !.cards[d].created = @ - 1, !.cards[d].posting = @ + 1,
                          !.session.feishu = IF @ = "none" THEN "open" ELSE @]
    /\ UNCHANGED <<recent, tm, built>>
    /\ UNCHANGED <<cacheVars, finalVars, dedupVars, configVars, serviceVars, filterVars, pipeVars,
                   collectorVars, driverVars, hubVars>>

\* the post of a send_alert task ends: the card is delivered, or the post
\* raises, as it does on a closed session
CardPosted(d, ok) ==
    /\ sup.pc = "ready"
    /\ sup.cards[d].posting > 0
    /\ sup.session.feishu # "open" => ~ok
    /\ sup' = [sup EXCEPT !.cards[d].posting = @ - 1,
                          !.late = @ \/ (ok /\ sup.stopped)]
    /\ UNCHANGED <<recent, tm, built>>
    /\ UNCHANGED <<cacheVars, finalVars, dedupVars, configVars, serviceVars, filterVars, pipeVars,
                   collectorVars, driverVars, hubVars>>

\* a call of the engine's stop() while it runs
SupStop ==
    /\ sup.pc = "ready"
    /\ sup.task = "running"
    /\ sup.running
    /\ sup' = engine_stop(sup)
    /\ UNCHANGED <<recent, tm, built>>
    /\ UNCHANGED <<cacheVars, finalVars, dedupVars, configVars, serviceVars, filterVars, pipeVars,
                   collectorVars, driverVars, hubVars>>

\* main.lifespan at shutdown: _running is cleared and the task of run() is
\* cancelled; gather cancels the loops, each at the await it stands at
Shutdown ==
    /\ sup.pc = "ready"
    /\ sup.engine = "AlertEngine"
    /\ sup.task = "running"
    /\ sup' = [sup EXCEPT !.running = FALSE, !.task = "cancelled",
                          !.drv = [d \in Drivers |->
                                      IF @[d].pc \in {"off", "done"} THEN @[d]
                                      ELSE [@[d] EXCEPT !.pc = "done", !.alert = None,
                                                        !.ended = "cancelled"]]]
    /\ UNCHANGED <<recent, tm, built>>
    /\ UNCHANGED <<cacheVars, finalVars, dedupVars, configVars, serviceVars, filterVars, pipeVars,
                   collectorVars, driverVars, hubVars>>

\* gather has returned or was cancelled.  AlertEngine.run: the finally
\* calls stop(); DuettoEngine.start returns.  The event loop runs its ready
\* tasks in the order they were made ready, so the send_alert tasks the
\* drivers created have started by then.
RunEnds ==
    /\ sup.pc = "ready"
    /\ \A d \in Drivers : sup.cards[d].created = 0
    /\ \/ sup.task = "cancelled"
       \/ /\ sup.task = "running"
          /\ \A d \in EngineDrivers(sup) : sup.drv[d].pc = "done"
    /\ sup' = IF sup.engine = "AlertEngine"
              THEN [engine_stop(sup) EXCEPT !.task = "done"]
              ELSE [sup EXCEPT !.task = "done"]
    /\ UNCHANGED <<recent, tm, built>>
    /\ UNCHANGED <<cacheVars, finalVars, dedupVars, configVars, serviceVars, filterVars, pipeVars,
                   collectorVars, driverVars, hubVars>>

EngineNext ==
    \/ SupRun
    \/ \E d \in Drivers : DrvLoop(d)
    \/ \E d \in Drivers, passes \in BOOLEAN : \E alert \in DriverAlerts(d) :
           DrvYield(d, alert, passes)
    \/ \E d \in Drivers : DrvBroadcastReturns(d)
    \/ \E d \in Drivers : DrvAnalyzeReturns(d)
    \/ \E d \in Drivers : DrvSendReturns(d)
    \/ \E d \in Drivers : DrvCycleEnd(d)
    \/ \E d \in Drivers : DrvFails(d)
    \/ \E d \in Drivers : DrvWakes(d)
    \/ \E d \in Drivers : CardRuns(d)
    \/ \E d \in Drivers, ok \in BOOLEAN : CardPosted(d, ok)
    \/ SupStop
    \/ Shutdown
    \/ RunEnds

SpecEngine == InitEngine /\ [][EngineNext]_vars

(***************************************************************************)
(* The recent-history list of AlertEngine.  _process_alert has no await    *)
(* between the filter and the cut of the list, so the drivers store one    *)
(* alert at a time.                                                        *)
(***************************************************************************)
\* _process_alert of the driver d up to the broadcast: the alert is dropped
\* by the filter, or stored
RecentProcess(d, passes) ==
    /\ recent.pc = "ready"
    /\ recent.stored < MaxStored
    /\ recent' = IF passes
                 THEN [recent EXCEPT !.list = recent_store(@, recent.stored + 1),
                                     !.stored = @ + 1, !.by = d, !.last = "stored"]
                 ELSE [recent EXCEPT !.by = d, !.last = "dropped"]
    /\ UNCHANGED <<sup, tm, built>>
    /\ UNCHANGED <<cacheVars, finalVars, dedupVars, configVars, serviceVars, filterVars, pipeVars,
                   collectorVars, driverVars, hubVars>>

\* GET /api/alerts?limit=...
GetAlerts(limit) ==
    /\ recent.pc = "ready"
    /\ recent' = [recent EXCEPT !.call = [made |-> TRUE, limit |-> limit, of |-> recent.list,
                                          ret |-> get_recent_alerts(recent.list,
                                                                    limit)]]
    /\ UNCHANGED <<sup, tm, built>>
    /\ UNCHANGED <<cacheVars, finalVars, dedupVars, configVars, serviceVars, filterVars, pipeVars,
                   collectorVars, driverVars, hubVars>>

RecentNext ==
    \/ \E d \in Drivers, passes \in BOOLEAN : RecentProcess(d, passes)
    \/ \E limit \in Limits : GetAlerts(limit)

SpecRecent == InitRecent /\ [][RecentNext]_vars

(***************************************************************************)
(* get_ticker_mapper, called by several tasks.  load() awaits nothing when *)
(* it reads the cache file and awaits the download otherwise.              *)
(***************************************************************************)
\* the task t calls get_ticker_mapper, up to its first suspension or its
\* return.  If the global is None the object is created and assigned, and
\* load() is awaited: a readable cache file is loaded at once (cached), else
\* the download is awaited.  If the global is set it is returned as it is.
GetTickerMapper(t, cached) ==
    /\ tm.pc = "ready"
    /\ tm.task[t] = "idle"
    /\ cached => tm.cache
    /\ tm' = IF tm.mapper # "none"
             THEN [tm EXCEPT !.task[t] = "returned", !.got[t] = returned_mapper(tm)]
             ELSE IF cached
             THEN [tm EXCEPT !.mapper = "loaded", !.loads = @ + 1, !.table = "full",
                             !.task[t] = "returned", !.got[t] = "loaded"]
             ELSE [tm EXCEPT !.mapper = "loading", !.loads = @ + 1,
                             !.task[t] = "loading"]
    /\ UNCHANGED <<sup, recent, built>>
    /\ UNCHANGED <<cacheVars, finalVars, dedupVars, configVars, serviceVars, filterVars, pipeVars,
                   collectorVars, driverVars, hubVars>>

\* _fetch_from_sec returns (ok: the tables are filled and saved to the cache
\* file) or raises (the error is logged): load() sets _loaded either way and
\* get_ticker_mapper returns the object
LoadReturns(t, ok) ==
    /\ tm.pc = "ready"
    /\ tm.task[t] = "loading"
    /\ tm' = [tm EXCEPT !.mapper = "loaded",
                        !.table = IF ok THEN "full" ELSE @,
                        !.cache = IF ok THEN TRUE ELSE @,
                        !.task[t] = "returned", !.got[t] = "loaded"]
    /\ UNCHANGED <<sup, recent, built>>
    /\ UNCHANGED <<cacheVars, finalVars, dedupVars, configVars, serviceVars, filterVars, pipeVars,
                   collectorVars, driverVars, hubVars>>

\* the caller resolves a filing's CIK with the mapper it was given
CikToTicker(t) ==
    /\ tm.pc = "ready"
    /\ tm.task[t] = "returned"
    /\ tm' = [tm EXCEPT !.task[t] = "used", !.looked[t] = cik_to_ticker(tm)]
    /\ UNCHANGED <<sup, recent, built>>
    /\ UNCHANGED <<cacheVars, finalVars, dedupVars, configVars, serviceVars, filterVars, pipeVars,
                   collectorVars, driverVars, hubVars>>

MapperNext ==
    \/ \E t \in Callers, cached \in BOOLEAN : GetTickerMapper(t, cached)
    \/ \E t \in Callers, ok \in BOOLEAN : LoadReturns(t, ok)
    \/ \E t \in Callers : CikToTicker(t)

SpecMapper == InitMapper /\ [][MapperNext]_vars

(***************************************************************************)
(* The summary of an alert, as each collector builds it, and after         *)
(* processing.                                                             *)
(***************************************************************************)
\* SECEdgarCollector._parse_entry: the entry's summary through _clean_summary
ParseEntry(raw, text, parsed) ==
    /\ built.pc = "ready"
    /\ built.stage = "none"
    /\ text <= raw
    /\ built' = [built EXCEPT !.kind = "sec", !.stage = "emitted",
                              !.summary = clean_summary(raw, text, parsed)]
    /\ UNCHANGED <<sup, recent, tm>>
    /\ UNCHANGED <<cacheVars, finalVars, dedupVars, configVars, serviceVars, filterVars, pipeVars,
                   collectorVars, driverVars, hubVars>>

\* FDACollector._parse_approval_row: the summary is formatted from the cells
ParseApprovalRow(drug_name, active_ingredient, approval_date, company) ==
    /\ built.pc = "ready"
    /\ built.stage = "none"
    /\ built' = [built EXCEPT !.kind = "fda", !.stage = "emitted",
                              !.summary = fda_summary(drug_name, active_ingredient,
                                                      approval_date, company)]
    /\ UNCHANGED <<sup, recent, tm>>
    /\ UNCHANGED <<cacheVars, finalVars, dedupVars, configVars, serviceVars, filterVars, pipeVars,
                   collectorVars, driverVars, hubVars>>

\* TradingViewCollector._create_alert: the summary is formatted from the quote
CreateAlert(company, ticker, change_pct, price) ==
    /\ built.pc = "ready"
    /\ built.stage = "none"
    /\ built' = [built EXCEPT !.kind = "tv", !.stage = "emitted",
                              !.summary = tv_summary(company, ticker, change_pct, price)]
    /\ UNCHANGED <<sup, recent, tm>>
    /\ UNCHANGED <<cacheVars, finalVars, dedupVars, configVars, serviceVars, filterVars, pipeVars,
                   collectorVars, driverVars, hubVars>>

\* _process_alert up to the storing: enhance_alert sets the priority and the
\* catalysts, should_pass keeps the alert or drops it; the summary is the
\* collector's
ProcessBuilt(passes) ==
    /\ built.pc = "ready"
    /\ built.stage = "emitted"
    /\ built' = [built EXCEPT !.stage = IF passes THEN "processed" ELSE "dropped"]
    /\ UNCHANGED <<sup, recent, tm>>
    /\ UNCHANGED <<cacheVars, finalVars, dedupVars, configVars, serviceVars, filterVars, pipeVars,
                   collectorVars, driverVars, hubVars>>

BuildNext ==
    \/ \E raw \in TextLens, text \in TextLens, parsed \in BOOLEAN :
           ParseEntry(raw, text, parsed)
    \/ \E drug_name \in CellLens \ {0}, active_ingredient \in CellLens,
          approval_date \in {0, 10}, company \in CellLens :
           ParseApprovalRow(drug_name, active_ingredient, approval_date, company)
    \/ \E company \in CellLens \ {0}, ticker \in TickerLens,
          change_pct \in PctLens, price \in PriceLens :
           CreateAlert(company, ticker, change_pct, price)
    \/ \E passes \in BOOLEAN : ProcessBuilt(passes)

SpecBuilt == InitBuilt /\ [][BuildNext]_vars

(***************************************************************************)
(* A TradingViewCollector: the socket reader puts alerts on _queue and     *)
(* collect() takes them off.                                               *)
(***************************************************************************)
\* collect() is called and runs to its first await in the loop: start() sets
\* _running and creates the reader task
TvCollect ==
    /\ tv.pc = "ready"
    /\ tv.col = "none"
    /\ tv' = [tv EXCEPT !.running = TRUE, !.col = "loop"]
    /\ UNCHANGED <<dropped, sock, tries, scan>>
    /\ UNCHANGED <<cacheVars, dedupVars, configVars, lateVars, serviceVars, filterVars,
                   pipeVars, collectorVars, driverVars, hubVars>>

\* the reader handles a quote-session-data frame for symbol with the value chp
TvQuote(symbol, chp) ==
    /\ tv.pc = "ready"
    /\ tv.running
    /\ tv.frames < MaxFrames
    /\ LET t == process_quote(tv, symbol, chp)
       IN  tv' = [t EXCEPT
                      !.frames = @ + 1,
                      !.last = [made |-> TRUE, symbol |-> symbol, chp |-> chp,
                                enqueued |-> t.put - tv.put,
                                alert |-> IF t.put > tv.put
                                          THEN t.queue[Len(t.queue)]
                                          ELSE price_move(symbol, 0, 0)]]
    /\ UNCHANGED <<dropped, sock, tries, scan>>
    /\ UNCHANGED <<cacheVars, dedupVars, configVars, lateVars, serviceVars, filterVars,
                   pipeVars, collectorVars, driverVars, hubVars>>

\* the clock passes to the next second
TvTick ==
    /\ tv.pc = "ready"
    /\ tv.second + 1 \in Seconds
    /\ tv' = [tv EXCEPT !.second = @ + 1]
    /\ UNCHANGED <<dropped, sock, tries, scan>>
    /\ UNCHANGED <<cacheVars, dedupVars, configVars, lateVars, serviceVars, filterVars,
                   pipeVars, collectorVars, driverVars, hubVars>>

\* collect() goes on, after its sleep with _running set or resumed by its
\* consumer at the yield: the queue is not empty, it takes the oldest alert
\* and yields it (the inner while does not look at _running)
TvYield ==
    /\ tv.pc = "ready"
    /\ \/ tv.col = "loop" /\ tv.running
       \/ tv.col = "yield"
    /\ tv.queue # <<>>
    /\ LET got == queue_get(tv.queue)
       IN  tv' = [tv EXCEPT !.queue = got.rest, !.yielded = Append(@, got.item),
                            !.col = "yield"]
    /\ UNCHANGED <<dropped, sock, tries, scan>>
    /\ UNCHANGED <<cacheVars, dedupVars, configVars, lateVars, serviceVars, filterVars,
                   pipeVars, collectorVars, driverVars, hubVars>>

\* collect() resumed by its consumer at the yield finds the queue empty and
\* sleeps half a second
TvSleep ==
    /\ tv.pc = "ready"
    /\ tv.col = "yield"
    /\ tv.queue = <<>>
    /\ tv' = [tv EXCEPT !.col = "loop"]
    /\ UNCHANGED <<dropped, sock, tries, scan>>
    /\ UNCHANGED <<cacheVars, dedupVars, configVars, lateVars, serviceVars, filterVars,
                   pipeVars, collectorVars, driverVars, hubVars>>

\* stop(): _running is cleared, the socket and the session are closed
TvStop ==
    /\ tv.pc = "ready"
    /\ tv.running
    /\ tv' = [tv EXCEPT !.running = FALSE]
    /\ UNCHANGED <<dropped, sock, tries, scan>>
    /\ UNCHANGED <<cacheVars, dedupVars, configVars, lateVars, serviceVars, filterVars,
                   pipeVars, collectorVars, driverVars, hubVars>>

\* collect() finds _running clear and returns
TvCollectEnds ==
    /\ tv.pc = "ready"
    /\ tv.col = "loop"
    /\ ~tv.running
    /\ tv' = [tv EXCEPT !.col = "done"]
    /\ UNCHANGED <<dropped, sock, tries, scan>>
    /\ UNCHANGED <<cacheVars, dedupVars, configVars, lateVars, serviceVars, filterVars,
                   pipeVars, collectorVars, driverVars, hubVars>>

TvNext ==
    \/ TvCollect
    \/ \E symbol \in Symbols, chp \in Changes : TvQuote(symbol, chp)
    \/ TvTick
    \/ TvYield
    \/ TvSleep
    \/ TvStop
    \/ TvCollectEnds

SpecTv == InitTv /\ [][TvNext]_vars

\* the moves of frames whose alerts differ in ticker and direction
FairChanges == {-25, 0, 25}

\* a TradingViewCollector under the default threshold and either AlertType
InitTvFair ==
    /\ CacheInit
    /\ DedupInit
    /\ notify_min_priority = "medium"
    /\ alertFilter = [min_priority |-> LOW, filter_noise |-> TRUE, catalyst_types |-> <<>>]
    /\ processors = <<"DedupProcessor", "FilterProcessor">>
    /\ NoCalls
    /\ LateInit
    /\ ServiceInit
    /\ EngineInit
    /\ dropped = NoDrop
    /\ tv \in {NewTv(TV_THRESHOLD_PCT, stock_movement) : stock_movement \in BOOLEAN}
    /\ sock = NoSock
    /\ tries = NoTries
    /\ scan = NoScan

\* the collector within one second of the clock
TvFairNext ==
    \/ TvCollect
    \/ \E symbol \in Symbols, chp \in FairChanges : TvQuote(symbol, chp)
    \/ TvYield
    \/ TvSleep
    \/ TvStop
    \/ TvCollectEnds

\* collect() is being consumed: its consumer resumes it at each yield, and the
\* event loop wakes it from each half-second sleep
SpecTvFair ==
    InitTvFair /\ [][TvFairNext]_vars /\ WF_vars(TvYield) /\ WF_vars(TvSleep)

(***************************************************************************)
(* TradingViewCollector._run_loop: connect, handshake, subscriptions,      *)
(* reading, and the sleep before the next connection.                      *)
(***************************************************************************)
\* the while test with _running set: the session is created if there is
\* none and ws_connect is awaited; it returns (ok) or raises, as it does on a
\* closed session
SockConnect(ok) ==
    /\ sock.pc = "loop"
    /\ sock.running
    /\ sock.connects < MaxConnects
    /\ LET k == [sock EXCEPT !.connects = @ + 1,
                             !.session = IF @ = "none" THEN "open" ELSE @,
                             !.late = @ \/ ~sock.running]
       IN  sock' = IF ok /\ k.session = "open"
                   THEN [k EXCEPT !.pc = IF send_plan(k.subscribed) = <<>>
                                         THEN "reading" ELSE "handshake",
                                  !.plan = send_plan(k.subscribed),
                                  !.sent = <<>>, !.handled = 0]
                   ELSE after_try(k)
    /\ UNCHANGED <<dropped, tv, tries, scan>>
    /\ UNCHANGED <<cacheVars, dedupVars, configVars, lateVars, serviceVars, filterVars,
                   pipeVars, collectorVars, driverVars, hubVars>>

\* the while test with _running clear: the task ends
SockEnds ==
    /\ sock.pc = "loop"
    /\ ~sock.running
    /\ sock' = [sock EXCEPT !.pc = "ended"]
    /\ UNCHANGED <<dropped, tv, tries, scan>>
    /\ UNCHANGED <<cacheVars, dedupVars, configVars, lateVars, serviceVars, filterVars,
                   pipeVars, collectorVars, driverVars, hubVars>>

\* the next _send_message of the handshake or of the subscriptions returns
\* (ok) or raises
SockSend(ok) ==
    /\ sock.pc = "handshake"
    /\ LET plan == sock.plan
           next == plan[Len(sock.sent) + 1]
           k == [sock EXCEPT !.sent = Append(@, next),
                             !.subscribed = IF Len(sock.sent) >= Len(Handshake)
                                            THEN @ \cup {next} ELSE @]
       IN  sock' = IF ~ok THEN after_try(sock)
                   ELSE IF Len(k.sent) = Len(plan) THEN [k EXCEPT !.pc = "reading"]
                   ELSE k
    /\ UNCHANGED <<dropped, tv, tries, scan>>
    /\ UNCHANGED <<cacheVars, dedupVars, configVars, lateVars, serviceVars, filterVars,
                   pipeVars, collectorVars, driverVars, hubVars>>

\* a text frame arrives: it is handled if _running is set, else the loop is
\* left
SockFrame ==
    /\ sock.pc = "reading"
    /\ sock.handled < MaxHandled
    /\ sock' = IF sock.running
               THEN [sock EXCEPT !.handled = @ + 1]
               ELSE after_try(sock)
    /\ UNCHANGED <<dropped, tv, tries, scan>>
    /\ UNCHANGED <<cacheVars, dedupVars, configVars, lateVars, serviceVars, filterVars,
                   pipeVars, collectorVars, driverVars, hubVars>>

\* the socket is closed by the server or by stop(), an ERROR frame arrives,
\* or the handling raises
SockLost ==
    /\ sock.pc = "reading"
    /\ sock' = after_try(sock)
    /\ UNCHANGED <<dropped, tv, tries, scan>>
    /\ UNCHANGED <<cacheVars, dedupVars, configVars, lateVars, serviceVars, filterVars,
                   pipeVars, collectorVars, driverVars, hubVars>>

\* the sleep is over
SockWake ==
    /\ sock.pc = "sleeping"
    /\ sock' = [sock EXCEPT !.pc = "loop"]
    /\ UNCHANGED <<dropped, tv, tries, scan>>
    /\ UNCHANGED <<cacheVars, dedupVars, configVars, lateVars, serviceVars, filterVars,
                   pipeVars, collectorVars, driverVars, hubVars>>

\* stop(): _running is cleared, the socket and the session are closed
SockStop ==
    /\ sock.pc \notin {"off", "ended"}
    /\ sock.running
    /\ sock' = [sock EXCEPT !.running = FALSE,
                            !.session = IF @ = "open" THEN "closed" ELSE @]
    /\ UNCHANGED <<dropped, tv, tries, scan>>
    /\ UNCHANGED <<cacheVars, dedupVars, configVars, lateVars, serviceVars, filterVars,
                   pipeVars, collectorVars, driverVars, hubVars>>

SockNext ==
    \/ \E ok \in BOOLEAN : SockConnect(ok)
    \/ SockEnds
    \/ \E ok \in BOOLEAN : SockSend(ok)
    \/ SockFrame
    \/ SockLost
    \/ SockWake
    \/ SockStop

SpecSock == InitSock /\ [][SockNext]_vars

(***************************************************************************)
(* One cycle of FDACollector._fetch_approvals, a page at a step, its       *)
(* consumer taking every alert.                                            *)
(***************************************************************************)
\* the page of the year is not had: the status is not 200 or there is no
\* table (continue), or the request raises (except, log)
ScanPageFails ==
    /\ scan.pc = "fetch"
    /\ scan' = next_year([scan EXCEPT !.pages = Append(@,
                              [year |-> scan.pos, table |-> FALSE, rows |-> 0, fresh |-> {},
                               considered |-> 0, yielded |-> 0])], 0)
    /\ UNCHANGED <<dropped, tv, sock, tries>>
    /\ UNCHANGED <<cacheVars, dedupVars, configVars, lateVars, serviceVars, filterVars,
                   pipeVars, collectorVars, driverVars, hubVars>>

\* the page of the year holds a table of n rows, those in fresh giving new
\* alerts: the first 20 rows are gone over and the new alerts yielded
ScanPage(n, fresh) ==
    /\ scan.pc = "fetch"
    /\ \A i \in fresh : i <= n
    /\ scan' = next_year([scan EXCEPT !.pages = Append(@,
                              [year |-> scan.pos, table |-> TRUE, rows |-> n, fresh |-> fresh,
                               considered |-> rows_considered(n),
                               yielded |-> page_count(n, fresh)])],
                         page_count(n, fresh))
    /\ UNCHANGED <<dropped, tv, sock, tries>>
    /\ UNCHANGED <<cacheVars, dedupVars, configVars, lateVars, serviceVars, filterVars,
                   pipeVars, collectorVars, driverVars, hubVars>>

ScanNext ==
    \/ ScanPageFails
    \/ \E n \in RowCounts, fresh \in FreshRows : ScanPage(n, fresh)

SpecScan == InitScan /\ [][ScanNext]_vars

Next ==
    \/ CacheNext \/ DedupNext \/ FilterNext \/ PipelineNext \/ ProcessingNext
    \/ CollectNext \/ DriverNext \/ HubNext \/ ConcurrentNext \/ StallNext \/ NotifyNext \/ AnalyzeNext \/ LifeNext \/ EngineNext \/ RecentNext \/ MapperNext \/ BuildNext \/ DropNext \/ TvNext \/ SockNext \/ ScanNext

Spec == Init /\ [][Next]_vars

(***************************************************************************)
(* Properties of the LRUCache objects.                                     *)
(***************************************************************************)
\* the keys of the calls from..to of a call log
LogKeys(log, from, to) == {log[i].key : i \in from..to}

\* the calls of a log carry pairwise distinct keys
DistinctKeys(log) ==
    \A i, j \in 1..Len(log) : i # j => log[i].key # log[j].key

\* the call before call i that inserted key x (the add of x that returned true)
InsertedAt(log, i, x) ==
    CHOOSE j \in 1..(i - 1) :
        /\ log[j].key = x /\ log[j].ret
        /\ \A m \in (j + 1)..(i - 1) : ~(log[m].key = x /\ log[m].ret)

\* the most recent call before call i that added key x, whatever it returned
LastAddedAt(log, i, x) ==
    CHOOSE j \in 1..(i - 1) :
        /\ log[j].key = x
        /\ \A m \in (j + 1)..(i - 1) : log[m].key # x

\* call i of the log inserted an absent key into a full cache
Evicting(log, i, before) == log[i].ret /\ Cardinality(before) >= Capacity

\* C3: add(k) returns true iff k was absent just before the call, and k is
\* present just after the call either way, in both LRUCache classes.
C3_AddTrueIffAbsent ==
    /\ \A i \in 1..Len(cacheLog) :
          /\ cacheLog[i].ret <=> ~LRUCache_contains(cacheLog[i].before, cacheLog[i].key)
          /\ LRUCache_contains(cacheLog[i].after, cacheLog[i].key)
    /\ \A i \in 1..Len(lruLog) :
          /\ lruLog[i].ret <=> ~Utils_LRUCache_contains(lruLog[i].before, lruLog[i].key)
          /\ Utils_LRUCache_contains(lruLog[i].after, lruLog[i].key)

\* C3 witness: a full cache was offered a key it held (false) and then a key
\* it did not hold (true).
C3_Witness ==
    \E i, j \in 1..Len(cacheLog) :
        /\ i < j /\ ~cacheLog[i].ret /\ cacheLog[j].ret
        /\ Len(cacheLog[i].before) = Capacity

\* C4: the size never exceeds the capacity, and after capacity + k adds of
\* pairwise distinct keys exactly the last `capacity` keys are present (the
\* first k are absent), in both LRUCache classes.
C4_DistinctAddsKeepLastCapacity ==
    /\ LRUCache_len(cache) <= Capacity
    /\ Utils_LRUCache_len(lruSet) <= Capacity
    /\ (DistinctKeys(cacheLog) /\ Len(cacheLog) >= Capacity) =>
          /\ LRUCache_len(cache) = Capacity
          /\ \A x \in Keys :
                LRUCache_contains(cache, x) <=>
                    x \in LogKeys(cacheLog, Len(cacheLog) - Capacity + 1, Len(cacheLog))
    /\ (DistinctKeys(lruLog) /\ Len(lruLog) >= Capacity) =>
          /\ Utils_LRUCache_len(lruSet) = Capacity
          /\ \A x \in Keys :
                Utils_LRUCache_contains(lruSet, x) <=>
                    x \in LogKeys(lruLog, Len(lruLog) - Capacity + 1, Len(lruLog))

\* C4 witness: more than `capacity` pairwise distinct keys were added to a
\* duetto/utils/cache.py cache, so that the first of them is gone.
C4_Witness ==
    /\ DistinctKeys(cacheLog)
    /\ Len(cacheLog) > Capacity
    /\ ~LRUCache_contains(cache, cacheLog[1].key)

\* C5 as claimed: whenever add inserts an absent key into a full cache, the
\* one entry evicted is the present key whose insertion (the add that
\* returned true) is the oldest, in both LRUCache classes.
C5_EvictsOldestInsertion ==
    /\ \A i \in 1..Len(cacheLog) :
          Evicting(cacheLog, i, Range(cacheLog[i].before)) =>
              \E x \in Range(cacheLog[i].before) :
                  /\ Range(cacheLog[i].before) \ Range(cacheLog[i].after) = {x}
                  /\ \A y \in Range(cacheLog[i].before) :
                        InsertedAt(cacheLog, i, x) <= InsertedAt(cacheLog, i, y)
    /\ \A i \in 1..Len(lruLog) :
          Evicting(lruLog, i, lruLog[i].before) =>
              \E x \in lruLog[i].before :
                  /\ lruLog[i].before \ lruLog[i].after = {x}
                  /\ \A y \in lruLog[i].before :
                        InsertedAt(lruLog, i, x) <= InsertedAt(lruLog, i, y)

\* C5 amended: the one entry evicted is, in duetto/utils.py, the present key
\* whose insertion is the oldest and, in duetto/utils/cache.py, the present
\* key whose most recent add call (returning true or false) is the oldest.
C5_EvictsLeastRecentlyAdded ==
    /\ \A i \in 1..Len(cacheLog) :
          Evicting(cacheLog, i, Range(cacheLog[i].before)) =>
              \E x \in Range(cacheLog[i].before) :
                  /\ Range(cacheLog[i].before) \ Range(cacheLog[i].after) = {x}
                  /\ \A y \in Range(cacheLog[i].before) :
                        LastAddedAt(cacheLog, i, x) <= LastAddedAt(cacheLog, i, y)
    /\ \A i \in 1..Len(lruLog) :
          Evicting(lruLog, i, lruLog[i].before) =>
              \E x \in lruLog[i].before :
                  /\ lruLog[i].before \ lruLog[i].after = {x}
                  /\ \A y \in lruLog[i].before :
                        InsertedAt(lruLog, i, x) <= InsertedAt(lruLog, i, y)

\* C5 witness: a duetto/utils/cache.py cache evicted an entry after a key it
\* still held had been added again.
C5_Witness ==
    \E i, j \in 1..Len(cacheLog) :
        /\ j < i
        /\ Evicting(cacheLog, i, Range(cacheLog[i].before))
        /\ ~cacheLog[j].ret
        /\ cacheLog[j].key \in Range(cacheLog[i].before)

(***************************************************************************)
(* Properties of the DedupProcessor.                                       *)
(***************************************************************************)
\* the ids other than log[i].id processed strictly between calls i and j
OthersBetween(log, i, j) ==
    {log[k].id : k \in (i + 1)..(j - 1)} \ {log[i].id}

\* C2 as claimed: once process passed an alert, a later process of an alert
\* with the same id is a drop as long as fewer than `capacity` other distinct
\* ids were processed in between; a repeat right after the first is a drop.
C2_DedupDropsRepeat ==
    \A i, j \in 1..Len(dedupLog) :
        ( /\ i < j
          /\ dedupLog[i].id = dedupLog[j].id
          /\ dedupLog[i].passed
          /\ Cardinality(OthersBetween(dedupLog, i, j)) < DedupCapacity )
        => ~dedupLog[j].passed

(***************************************************************************)
(* Properties of the filters and of the pipeline.                          *)
(***************************************************************************)
\* the order Low < Medium < High
Rank(priority) ==
    CASE priority = LOW -> 1
      [] priority = MEDIUM -> 2
      [] priority = HIGH -> 3

\* the minimum a value of the setting names
ConfiguredMinimum(setting) ==
    CASE setting \in {"low"} -> LOW
      [] setting \in {"medium", "Medium"} -> MEDIUM
      [] setting \in {"high", "HIGH"} -> HIGH

\* C6: the alert an engine hands to broadcast has a priority >= the priority
\* the collector gave it (processing upgrades, never downgrades).
C6_PriorityNeverDowngraded ==
    handoff.engine # "none" =>
        Rank(handoff.alert.priority) >= Rank(handoff.collected.priority)

\* C6 witness: the AlertEngine handed over an alert it had upgraded from Low
\* to High.
C6_Witness ==
    /\ handoff.engine = "AlertEngine"
    /\ handoff.collected.priority = LOW
    /\ handoff.alert.priority = HIGH

\* C7: FilterProcessor.process returns the alert unchanged when its priority
\* is >= the configured minimum and None otherwise; AlertFilter.should_pass
\* rejects every alert below its min_priority, and decides by the priority
\* alone when neither the noise filter nor a catalyst list applies.
C7_FilterDropsIffBelowMinimum ==
    /\ call.fn = "FilterProcessor.process" =>
          call.out = IF Rank(call.alert.priority)
                            >= Rank(ConfiguredMinimum(notify_min_priority))
                     THEN call.alert
                     ELSE None
    /\ call.fn = "AlertFilter.should_pass" =>
          /\ Rank(call.alert.priority) < Rank(alertFilter.min_priority) => ~call.ret
          /\ ( /\ ~(alertFilter.filter_noise /\ call.alert.noise)
               /\ alertFilter.catalyst_types = <<>> )
             => (call.ret <=>
                    Rank(call.alert.priority) >= Rank(alertFilter.min_priority))

\* C7 witness: with the minimum High, a Medium alert was dropped.
C7_Witness ==
    /\ call.fn = "FilterProcessor.process"
    /\ ConfiguredMinimum(notify_min_priority) = HIGH
    /\ call.alert.priority = MEDIUM
    /\ call.out = None

\* C8: run calls the processors in list order, each on the output of the one
\* before; after a processor returned None no later one is called and run
\* returns None; otherwise run returns the output of the last processor.
C8_PipelineOrderAndShortCircuit ==
    run.alert # None =>
        LET n == Len(run.calls)
        IN  /\ n <= Len(processors)
            /\ \A i \in 1..n :
                  /\ run.calls[i].proc = processors[i]
                  /\ run.calls[i].arg = IF i = 1 THEN run.alert ELSE run.calls[i - 1].out
            /\ \A i \in 1..(n - 1) : run.calls[i].out # None
            /\ n < Len(processors) => (n > 0 /\ run.calls[n].out = None)
            /\ run.out = IF n = 0 THEN run.alert ELSE run.calls[n].out

\* C8 witness: the first of two processors dropped the alert and the second
\* was not called.
C8_Witness ==
    /\ run.alert # None
    /\ Len(processors) = 2
    /\ Len(run.calls) = 1
    /\ run.out = None

(***************************************************************************)
(* Claims about the collectors and their drivers.                          *)
(***************************************************************************)
\* C1: a collector of either class emits at most one alert with the tracked
\* id, over any number of collect() cycles, unless some gap between two
\* successive appearances of that id at the source held SeenCapacity or more
\* other distinct ids.
C1_AtMostOneAlertPerId ==
    (tracked # 0 /\ ~hist.wide) => hist.count <= 1

\* a cycle ended in which the tracked id, emitted once before, was shown
\* again and not emitted again; the cache is full and some id is outside it
C1_Witness ==
    /\ tracked # 0
    /\ hist.count = 1
    /\ hist.suppressed
    /\ ~hist.wide
    /\ Len(colSeen) = SeenCapacity
    /\ \E id \in SourceIds : id # tracked /\ id \notin Range(colSeen)
    /\ gen.pc = "done"

\* C9: when the processing step of a yielded alert raises, the driver does not
\* end and the generator goes on as it does after a step that returns, unless
\* the cycle was over anyway.
C9_RaiseDropsOnlyThatAlert ==
    [][(gen.pc = "yielded" /\ outcome' = "raised")
          => /\ drv' # "done"
             /\ \/ gen' = Advance(colKind, gen)
                \/ Advance(colKind, gen).pc = "done" /\ gen'.pc \in {"off", "done"}]_vars

C11_FailedSubscriberRemoved ==
    /\ ~hubError
    /\ Len(connections) = Cardinality(Range(connections))
    /\ \A d \in Drivers :
          /\ bc[d].done => bc[d].failed \cap Range(connections) = {}
          /\ \A ws \in bc[d].before :
                 /\ bc[d].sent[ws] = 0
                 /\ bc[d].pc # "waiting" => ws \notin Range(bc[d].snap)
          /\ bc[d].done => bc[d].before \cap Range(connections) = {}

\* a broadcast ended after a send of an earlier one had failed, it sent to
\* another client, and the endpoint of the failed client has called disconnect too
C11_Witness ==
    \E d \in Drivers :
        /\ bc[d].done
        /\ \E ws \in bc[d].before : endpoint[ws] \in {"gone", "errored"}
        /\ \E ws \in Clients : bc[d].sent[ws] = 1
        /\ connections # <<>>

\* the drivers whose broadcast awaits a send to client ws
SendingTo(ws) == {d \in Drivers : bc[d].pc = "sending" /\ bc[d].conn = ws}

\* no two sends to one client are in progress, and a broadcast does not send
\* to a client that a broadcast called after it has already been sent to
Serialized ==
    /\ \A ws \in Clients : Cardinality(SendingTo(ws)) <= 1
    /\ \A d, e \in Drivers, ws \in Clients :
          (e \in bc[d].earlier /\ e \in SendingTo(ws)) =>
              (bc[d].sent[ws] = 0 \/ ws \in bc[d].failed)

C12_ServicesSerialized == hubKind = "services" => Serialized

\* services/: a broadcast sends while the broadcast of the other driver,
\* called after it, waits for the lock
C12_ServicesWitness ==
    /\ hubKind = "services"
    /\ \E d, e \in Drivers :
          /\ bc[d].pc = "waiting" /\ e \in bc[d].earlier
          /\ bc[e].pc = "sending" /\ bc[e].i > 1

\* C13: a broadcast whose send to one client does not complete still ends:
\* the other clients are sent to, the stalled client is detached and the
\* driver gets the control back.
C13_StalledSendDoesNotStall ==
    \A d \in Drivers : (bc[d].pc = "stalled") ~> bc[d].done

\* C14: the fan-out calls send at most once on each notifier; when it has
\* returned, send has been called once on every notifier and every call has
\* returned or raised; and the fan-out never raises, whatever its notifiers
\* return or raise.
C14_FanOutInvokesEachOnce ==
    fan.pc \in {"gather", "loop", "returned", "raised"} =>
        /\ \A k \in 1..Len(fan.send) : fan.send[k].invoked <= 1
        /\ fan.pc # "raised"
        /\ (fan.pc = "returned" /\ fan.notified) =>
               \A k \in 1..Len(fan.send) :
                   fan.send[k].invoked = 1 /\ fan.send[k].ret # "none"

\* a MultiNotifier over three notifiers has returned, the second raised, the
\* first and the third were called and returned
C14_Witness ==
    /\ fan.pc = "returned"
    /\ fan.engine = "MultiNotifier"
    /\ Len(fan.send) = 3
    /\ fan.send[2].ret = "raised"
    /\ fan.send[1].invoked = 1 /\ fan.send[1].ret \in {"true", "false"}
    /\ fan.send[3].invoked = 1 /\ fan.send[3].ret \in {"true", "false"}

\* the rank of a priority, and of a notify_min_priority setting, in the order
\* Low < Medium < High
PriorityRank(p) == IF p = HIGH THEN 2 ELSE IF p = MEDIUM THEN 1 ELSE 0
SettingRank(m) == IF m = "high" THEN 2 ELSE IF m = "medium" THEN 1 ELSE 0

\* the alert was handed to a notifier or to the Feishu card
ReachedChannel ==
    \/ \E k \in 1..Len(fan.send) : fan.send[k].invoked > 0
    \/ fan.feishu

\* C15: an alert is handed to an external channel (a notifier of the engine,
\* or the Feishu card) only if its priority is at least notify_min_priority;
\* an alert below it reaches none, whether it comes from SEC EDGAR or the FDA.
C15_ChannelsOnlyAtMinPriority ==
    (fan.pc # "off" /\ fan.engine \in {"AlertEngine", "DuettoEngine"} /\ ReachedChannel)
        => PriorityRank(fan.alert.priority) >= SettingRank(notify_min_priority)

\* AlertEngine with a notifier has processed an alert below the minimum and
\* handed it to no channel
C15_Witness ==
    /\ fan.pc = "returned"
    /\ fan.engine = "AlertEngine"
    /\ fan.notifiers # <<>>
    /\ PriorityRank(fan.alert.priority) < SettingRank(notify_min_priority)
    /\ ~ReachedChannel

\* C16: with AI enabled, analyze is called at most once for an alert, and
\* the suggestion each notifier formats its message with is the one result
\* of that call.
C16_AnalyzeAtMostOnce ==
    (fan.pc # "off" /\ fan.engine = "AlertEngine" /\ fan.enable_ai) =>
        /\ fan.calls <= 1
        /\ \A k \in 1..Len(fan.send) :
               fan.send[k].pc \in {"post", "done"} =>
                   fan.send[k].suggestion = fan.ai_suggestion

\* a body in which the content is not a string at the place the provider
\* reads it
Malformed(provider, body) ==
    ~ /\ body.json /\ body.dict
      /\ body.list = "items" /\ body.first = "dict"
      /\ provider = "OpenAIProvider" => body.message = "dict"
      /\ body.content \in {"empty", "blank", "text"}

\* C17: analyze of OpenAIProvider and AnthropicProvider never raises; with no
\* API key it returns null and issues no HTTP request; on a network error, a
\* status other than 200 or a malformed body it returns null.
C17_AnalyzeNeverRaises ==
    ai.pc # "off" =>
        \A n \in 1..Len(ai.log) :
            LET c == ai.log[n]
            IN  /\ ~c.raised
                /\ ~ai.api_key => (c.ret = "null" /\ c.requests = 0)
                /\ (c.http.kind = "error" \/ c.http.status # 200
                        \/ Malformed(ai.provider, c.http.body)) => c.ret = "null"

\* a provider with a key was served a body whose list is empty, and another
\* time a network error, and returned null both times
C17_Witness ==
    /\ ai.pc # "off" /\ ai.api_key
    /\ \E n, m \in 1..Len(ai.log) :
          /\ ai.log[n].http.kind = "response" /\ ai.log[n].http.status = 200
          /\ ai.log[n].http.body.list = "empty"
          /\ ai.log[n].ret = "null" /\ ai.log[n].requests = 1
          /\ ai.log[m].http.kind = "error" /\ ai.log[m].ret = "null"

\* the feeds, or year pages, of a collector
Pages(kind) == IF kind = "SECEdgarCollector" THEN SEC_FEEDS ELSE years_to_check

\* C18: whatever a fetch meets (a failure included), the generator goes on
\* with the entries of that page or with the next feed or year page, and ends
\* only after the last one (FDACollector: or after a page that yielded an
\* alert); whatever happens to an entry (a parse error included), the entries
\* left on its page are still processed; and when a cycle of AlertEngine has
\* ended, its loop is ready for the next one.
C18_FailuresAreSkipped ==
    /\ [][ /\ gen.pc = "fetch" =>
                \/ gen'.pc \in {"entries", "yielded"} /\ gen'.pos = gen.pos
                \/ gen'.pc = "fetch" /\ gen'.pos = gen.pos + 1
                \/ gen'.pc = "done" /\ gen.pos = Len(Pages(colKind))
           /\ (gen.pc = "entries" /\ gen.left > 1) =>
                /\ gen'.pc \in {"entries", "yielded"}
                /\ gen'.pos = gen.pos
                /\ gen'.left = gen.left - 1
           /\ (engineKind = "AlertEngine" /\ drv = "collecting" /\ gen.pc = "done") =>
                drv' = "loop" ]_vars
    /\ []((engineKind = "AlertEngine" /\ drv = "loop") => (engineRunning /\ gen.pc = "off"))

\* AlertEngine has processed an alert, and an alert is yielded after a fetch
\* had failed and an entry had not been parsed in the same call of collect()
C18_Witness ==
    /\ engineKind = "AlertEngine"
    /\ drv = "collecting"
    /\ gen.pc = "yielded"
    /\ gen.skipped = {"fetch", "entry"}
    /\ outcome = "ok"

\* C19: whatever start(), stop() and collect() calls are made, a collector
\* has at most one open session and at most one _run_loop task.
C19_StartIdempotent ==
    life.pc # "off" =>
        /\ Cardinality(OpenSessions(life)) <= 1
        /\ LoopTasks(life) <= 1

\* C20: a stop() that follows a stop() changes nothing; a request that
\* collect() awaits when stop() is called does not end normally; no exception
\* leaves collect(); and after a stop() issued while collect() was suspended
\* in a fetch, a sleep or a yield, with no start() since, _running is clear
\* and the session the collector holds is closed, however collect() goes on.
C20_StopIdempotentAndSafe ==
    life.pc # "off" =>
        /\ ~life.restop
        /\ ~life.hit
        /\ life.col # "raised"
        /\ life.stopped \in {"fetch", "sleep", "yielded"} =>
               /\ ~life.running
               /\ life.session # 0 => life.session \in life.closed

\* C21: collect() has ended only if the collector has been stopped or a
\* request of that collect() call failed: while the collector is started and
\* not stopped and its source answers, collect() does not finish.
C21_CollectEndsOnlyWhenStopped ==
    (life.pc # "off" /\ life.col = "done") => (~life.running \/ life.raised)

\* C22: while the engine runs, the driver of every enabled collector goes on
\* cycle after cycle: the sleep that follows a cycle lasts that source's poll
\* interval, and no driver ends because a cycle of its collector has ended.
C22_PolledAgainAndAgain ==
    sup.pc # "off" =>
        \A d \in EngineDrivers(sup) :
            /\ sup.drv[d].pc = "sleep" => sup.drv[d].wait = poll_interval(d)
            /\ sup.drv[d].ended # "cycle"

\* C23: a step in which the driver of one collector fails changes neither
\* the driver of any other collector, nor the engine's running flag, its
\* run() task or any session: the others go on collecting and delivering.
C23_FailureIsContained ==
    [][\A d \in Drivers :
           (sup.pc # "off" /\ sup'.drv[d].fails = sup.drv[d].fails + 1)
           => /\ \A e \in Drivers \ {d} : sup'.drv[e] = sup.drv[e]
              /\ sup'.running = sup.running
              /\ sup'.task = sup.task
              /\ sup'.session = sup.session]_vars

\* the SEC driver has failed, the engine still runs, and a broadcast of the
\* FDA driver has returned since
C23_Witness ==
    /\ sup.pc # "off"
    /\ sup.drv["sec"].fails > 0
    /\ sup.running
    /\ sup.survived
    /\ sup.drv["fda"].pc = "collecting"

\* C24: the wait before the restart of a failed driver is 1 s after the
\* first failure and doubles with each consecutive failure, up to 30 s; and
\* the engine's run does not end, with the engine still running, while a
\* driver that failed is left ended.
C24_RestartWithBackoff ==
    sup.pc # "off" =>
        \A d \in EngineDrivers(sup) :
            /\ (sup.drv[d].pc = "sleep" /\ sup.drv[d].fails > 0)
                   => sup.drv[d].wait = Min(2 ^ (sup.drv[d].fails - 1), 30)
            /\ (sup.drv[d].ended = "failed" /\ sup.running) => sup.task # "done"

\* C25: once a stop() call of the engine has returned, every driver task has
\* ended, and no alert is broadcast to the subscribers or sent to a notifier
\* or to Feishu afterwards.
C25_StopWaitsForDrivers ==
    (sup.pc # "off" /\ sup.stopped) =>
        /\ \A d \in EngineDrivers(sup) : sup.drv[d].pc = "done"
        /\ ~sup.late

\* C26: after the engine's stop() has returned and its run has ended, no
\* HTTP session of a collector, of the Feishu service, of a notifier or of an
\* AI provider is open.
C26_SessionsClosedAfterStop ==
    (sup.pc # "off" /\ sup.stopped /\ sup.task = "done"
         /\ \A d \in Drivers : sup.cards[d].created + sup.cards[d].posting = 0)
    => \A h \in SessionHolders : sup.session[h] # "open"

\* C27: when a driver asks its collector for the next alert, no delivery of
\* an alert it took before is pending: the broadcast and the notifier's send
\* have returned and no Feishu card of that driver is waiting or in flight.
C27_ProcessedToCompletion ==
    sup.pc # "off" =>
        \A d \in EngineDrivers(sup) :
            sup.drv[d].pc = "collecting"
                => sup.cards[d].created + sup.cards[d].posting = 0

\* the list holds at most _max_recent alerts
RingBounded == Len(recent.list) <= max_recent

\* the list holds exactly the last min(stored, 100) alerts that passed the
\* filter, the most recent at index 0
RingNewestFirst ==
    recent.list = [i \in 1..Min(recent.stored, max_recent) |-> recent.stored - i + 1]

\* the last get_recent_alerts(limit) returned the first min(limit, size)
\* entries of the list, in the list's order
GetReturnsFirst ==
    recent.call.made =>
        recent.call.ret = SubSeq(recent.call.of, 1, Min(recent.call.limit, Len(recent.call.of)))

\* C28: the recent-history list never holds more than 100 alerts, it holds
\* exactly the last min(n, 100) alerts that passed the filter, newest first,
\* and get_recent_alerts(limit) returns its first min(limit, size) entries.
C28_RingNewestFirstBounded ==
    recent.pc # "off" => (RingBounded /\ RingNewestFirst /\ GetReturnsFirst)

\* C29: whatever tasks call get_ticker_mapper concurrently, the table is
\* loaded at most once, and no caller is given a mapper whose load has not
\* completed.
C29_LoadSingleFlighted ==
    tm.pc # "off" =>
        /\ tm.loads <= 1
        /\ \A t \in Callers : tm.got[t] # "unloaded"

\* C30: every alert a collector emits (SEC filing, FDA approval, price move)
\* has a summary of at most 500 characters, and so it has after processing.
C30_SummaryAtMost500 ==
    (built.pc # "off" /\ built.stage # "none") => built.summary <= 500

\* C31: with filter_noise set, an alert that matches a noise pattern is
\* dropped before its classification is stored: when it is dropped no catalyst
\* list has been written into it and its priority is the collector's.
C31_NoiseDroppedUnclassified ==
    (dropped.pc = "dropped" /\ alertFilter.filter_noise /\ is_noise(dropped.collected))
    => /\ ~dropped.alert.classified
       /\ dropped.alert.priority = dropped.collected.priority

\* C32: enhance_alert sets the priority by the upgrade rule, for every set of
\* matched categories and every input priority: High if merger_acquisition,
\* fda_catalyst or bankruptcy_restructuring matched; else Medium if
\* contract_partnership or insider_activity matched and the priority was Low;
\* else unchanged.  The stored list holds each matched category exactly once
\* and no other.
C32_UpgradeRule ==
    call.fn = "AlertFilter.enhance_alert" =>
        LET m == call.alert.matches
            p == call.alert.priority
            stored == call.out.catalysts
            expected ==
                IF m \cap {"merger_acquisition", "fda_catalyst",
                           "bankruptcy_restructuring"} # {}
                THEN HIGH
                ELSE IF m \cap {"contract_partnership", "insider_activity"} # {} /\ p = LOW
                THEN MEDIUM
                ELSE p
        IN  /\ call.out.priority = expected
            /\ call.out.classified
            /\ \A c \in Range(CATALYST_PATTERNS) :
                   Cardinality({i \in 1..Len(stored) : stored[i] = c})
                       = IF c \in m THEN 1 ELSE 0

\* a Low alert matching bankruptcy_restructuring and offering_dilution has been
\* enhanced: High, two categories stored
C32_Witness ==
    /\ call.fn = "AlertFilter.enhance_alert"
    /\ call.alert.matches = {"bankruptcy_restructuring", "offering_dilution"}
    /\ call.alert.priority = LOW
    /\ call.out.priority = HIGH
    /\ Len(call.out.catalysts) = 2

\* C33: for every quote frame with change percent c under the threshold t,
\* exactly one alert is enqueued iff |c| >= t and none otherwise; its priority
\* is High iff |c| > 20 and Medium otherwise, its direction UP iff c > 0 and
\* DOWN otherwise.
C33_OneAlertPerMove ==
    (tv.pc # "off" /\ tv.last.made) =>
        LET c == tv.last.chp
        IN  IF Abs(c) >= tv.threshold
            THEN /\ tv.last.enqueued = 1
                 /\ tv.last.alert.priority = (IF Abs(c) > 20 THEN HIGH ELSE MEDIUM)
                 /\ tv.last.alert.direction = (IF c > 0 THEN "UP" ELSE "DOWN")
            ELSE tv.last.enqueued = 0

C36_ReconnectAndResubscribe ==
    sock.pc # "off" =>
        LET expected == <<"set_auth_token", "chart_create_session", "quote_create_session",
                          "quote_set_fields", "NASDAQ:AAPL", "NASDAQ:MSFT">>
        IN  /\ sock.pc = "sleeping" => sock.wait = 5
            /\ sock.pc = "ended" => ~sock.running
            /\ sock.pc = "reading" => sock.sent = expected
            /\ sock.pc = "handshake" => /\ Len(sock.sent) < Len(expected)
                                        /\ sock.sent = SubSeq(expected, 1, Len(sock.sent))
            /\ sock.handled > 0 => sock.sent = expected
            /\ ~sock.late

\* the loop lost its first connection, slept, connected again and reads on
\* the second connection with everything sent again
C36_Witness ==
    /\ sock.pc = "reading"
    /\ sock.running
    /\ sock.connects = 2
    /\ sock.wait = 5
    /\ Len(sock.sent) = 6
    /\ sock.handled = 1

\* C37: the services WebSocketManager holds its lock only to work on the
\* subscriber set: no broadcast awaits a send to a subscriber while it holds
\* the lock, so no connect or disconnect waits for the lock during a send.
C37_NoSendUnderLock ==
    hubKind = "services" =>
        \A d \in Drivers :
            bc[d].pc = "sending" =>
                /\ lock # d
                /\ \A k \in 1..Len(waiters) : "endpoint" \notin DOMAIN waiters[k]

\* C38: in one FDACollector cycle the current year's page is scanned first;
\* the previous year's page is scanned iff the current year yielded no new
\* alert (its fetch failed, it had no table, or none of its rows gone over
\* was new); scanning stops at the first year that yielded a new alert; at
\* most 20 rows of a page are gone over.
C38_YearsInOrderUntilNew ==
    scan.pc # "off" =>
        LET pages == scan.pages
            new(k) == Cardinality({i \in pages[k].fresh : i <= 20})
        IN  /\ Len(pages) <= 2
            /\ \A k \in 1..Len(pages) :
                   /\ pages[k].year = k
                   /\ pages[k].considered <= 20
                   /\ pages[k].considered <= pages[k].rows
                   /\ pages[k].yielded = new(k)
            /\ Len(pages) = 2 => new(1) = 0
            /\ (scan.pc = "done" /\ Len(pages) = 1) => new(1) > 0
            /\ scan.pc = "fetch" => scan.pos = Len(pages) + 1

\* the current year's table has 21 rows of which only the last is new: it is
\* beyond the 20 gone over, so the previous year was scanned too and gave an
\* alert
C38_Witness ==
    /\ scan.pc = "done"
    /\ Len(scan.pages) = 2
    /\ scan.pages[1].rows = 21
    /\ scan.pages[1].fresh = {21}
    /\ scan.pages[1].considered = 20
    /\ scan.pages[2].yielded = 1

C40_OneParseAttemptPerId ==
    tries.pc = "on" =>
        /\ tries.attempts <= 1
        /\ tries.attempts = 1 => tracked \in Range(colSeen)
        /\ tries.emitted <= tries.attempts
        /\ tries.failed => tries.emitted = 0

\* the one attempt for the tracked id failed; a later cycle showed the id
\* again while it was in the cache, and ended with nothing emitted for it
C40_Witness ==
    /\ tries.pc = "on"
    /\ tries.attempts = 1
    /\ tries.failed
    /\ tries.again
    /\ tries.emitted = 0
    /\ gen.pc = "done"

====
